---- MODULE Spec2Model ----
(***************************************************************************)
(* Capture-synchronization controllers of mult-camera-sync.                *)
(*                                                                         *)
(* One capture session of one controller script is modelled: main(),       *)
(* initialize_cameras, start_capture, send_pulse_command, the capture      *)
(* workers, the data processors, _mark_camera_complete, cleanup and the    *)
(* SIGINT handler.  The repository holds several near-duplicate            *)
(* controllers; `ctrl` says which one runs:                                *)
(*   "fe"  src/sync_3_camera/sync_2_fe.py           FLIR + event           *)
(*   "fr"  src/sync/sync_3_camera/sync_2_fr.py      FLIR + thermal         *)
(*   "re"  src/sync/sync_3_camera/sync_2_re.py      event + thermal        *)
(*   "re0" src/sync/sync/sync_3_camera/sync_2_re.py event + thermal        *)
(*   "th"  src/sync_3_camera/test_thermal_perfect.py thermal only          *)
(* Vendor SDK calls (GetNextImage, start_recording's iterator, the thermal *)
(* SDK, pyserial) are inputs: each call nondeterministically succeeds,     *)
(* reports failure or raises.                                              *)
(***************************************************************************)
EXTENDS Integers, Sequences, FiniteSets, TLC

\* Frames requested from the FLIR camera in one session (NUM_IMAGES lives in
\* config.py, which is configuration, so it is bounded here).
MaxImages == 2

\* frame_queue = queue.Queue(maxsize=500); the capacity is bounded here.
QueueCap == 6
\* target_count, set by configure_camera to NUM_IMAGES (configuration).
TargetCount == 8
\* The same two sizes for the sessions in which wait_for_completion,
\* process_frames and ThermalCamera.cleanup run beside the pipeline.
SessionQueueCap == 2
SessionFrames == 4

\* The item cleanup() pushes into flir_queue as the end signal (Python None).
NoneItem == -1

Ctrl == {"fe", "fr", "re", "re0", "th"}
AllSensors == {"flir", "event", "thermal"}

\* The sensors each controller drives (its _init_* / *_capture_worker methods).
Sensors(c) ==
    CASE c = "fe"  -> {"flir", "event"}
      [] c = "fr"  -> {"flir", "thermal"}
      [] c = "re"  -> {"event", "thermal"}
      [] c = "re0" -> {"event", "thermal"}
      [] c = "th"  -> {"thermal"}

\* The count _mark_camera_complete compares completed_cameras with (">= 2",
\* ">= 1" in test_thermal_perfect.py).
ThresholdOne(c) == 1
Threshold(c) == IF c = "th" THEN 1 ELSE 2

\* Sensors whose data processor start_capture submits.
\*   fe: _flir_data_processor, _event_data_processor
\*   fr: _flir_data_processor, _thermal_data_processor (a bare `pass`)
\*   re: _thermal_data_processor, _event_data_processor
\*   re0: _event_data_processor            th: _thermal_data_processor
Processors(c) ==
    CASE c = "fe"  -> {"flir", "event"}
      [] c = "fr"  -> {"flir", "thermal"}
      [] c = "re"  -> {"event", "thermal"}
      [] c = "re0" -> {"event"}
      [] c = "th"  -> {"thermal"}

\* Does the worker of sensor s set ACQUISITION_FLAG when its capture ends?
\*   fe _flir_capture_worker (line 253), re _thermal_capture_worker (line 232).
SetsAcqFlag(c, s) == (c = "fe" /\ s = "flir") \/ (c = "re" /\ s = "thermal")

\* Does the except branch of the worker of sensor s clear RUNNING?
\* Every worker does, except fr's _thermal_capture_worker (print only).
ClearsRunningNever(c, s) == FALSE
ClearsRunningOnError(c, s) == ~(c = "fr" /\ s = "thermal")

\* Does the except branch of the worker of sensor s call _mark_camera_complete?
\*   th _thermal_capture_worker (line 147), re0 _prophesee_capture_worker (209).
MarksOnError(c, s) == (c = "th" /\ s = "thermal") \/ (c = "re0" /\ s = "event")

\* _mark_camera_complete, under status_lock: the new count and event state.
MarkCompleteEarly(cnt, ev, n) == [cnt |-> cnt + 1, ev |-> TRUE]
MarkComplete(cnt, ev, n) ==
    [cnt |-> cnt + 1, ev |-> IF cnt + 1 >= n THEN TRUE ELSE ev]

\* What start_capture returns once capture_complete_event.wait has returned
\* `completed` (TRUE: the event was set, FALSE: the timeout elapsed).
\*   fe  ignores the result and falls through to `return True` (line 208)
\*   fr  ignores the result and falls off the end: returns None
\*   re  `if not completed: return False`, else True (lines 187-200)
\*   re0 ignores the result, `return True` (line 151)
\*   th  `if not completed: RUNNING.value = 0; return False` (lines 118-123)
StartCaptureReturn(c, completed) ==
    CASE c = "fe"  -> "True"
      [] c = "fr"  -> "None"
      [] c = "re"  -> IF completed THEN "True" ELSE "False"
      [] c = "re0" -> "True"
      [] c = "th"  -> IF completed THEN "True" ELSE "False"

\* Python truthiness of start_capture's result in main's
\* `if not controller.start_capture(): return False`.
Truthy(r) == r = "True"

\* send_pulse_command's finally block: `if 'ser' in locals(): ser.close()`.
\* The port's open state after the block, whatever ended the try block.
\* `bound` says whether `ser` was assigned (serial.Serial returned).
FinallyCloseLeak(bound, open, exc) == open /\ exc # "none"
FinallyClose(bound, open, exc) == IF bound THEN FALSE ELSE open

\* send_pulse_command's single `ser.write(command.encode())`: the number of
\* PULSE commands on the wire after the call, for write outcome o.
WriteCommandTwice(p, o) == IF o = "ok" THEN p + 2 ELSE p
WriteCommand(p, o) == IF o = "ok" THEN p + 1 ELSE p

\* What send_pulse_command hands to its caller: a serial.SerialException is
\* caught and printed, any other exception propagates after the finally block.
\*   "normal": the call returns None, as on success;  "raised": it raises.
PulseOutcome(exc) == IF exc = "other" THEN "raised" ELSE "normal"

VARIABLES
    ctrl,                    \* which controller script runs
    mainPc,                  \* position of the main thread
    RUNNING,                 \* config.RUNNING.value
    ACQUISITION_FLAG,        \* config.ACQUISITION_FLAG.value
    completed_cameras,       \* self.completed_cameras
    capture_complete_event,  \* self.capture_complete_event.is_set()
    flir_queue,              \* self.flir_queue
    images,                  \* _flir_data_processor's local `images` (indices)
    saved,                   \* indices handed to flir._save_data
    wpc,                     \* position of each capture worker
    fi,                      \* _flir_capture_worker's loop index i
    ppc,                     \* position of each data processor
    hw,                      \* what each sensor's hardware does at init
    serOpen,                 \* the serial port opened by send_pulse_command
    serExc,                  \* exception that ended send_pulse_command's try
    pulses,                  \* PULSE commands written to the port
    trigFailed,              \* the port could not be opened or written
    trigSeen,                \* what send_pulse_command handed to its caller
    waitOutcome,             \* how capture_complete_event.wait(timeout) ended
    scRet,                   \* start_capture's return value
    retval,                  \* main's return value
    exitCode,                \* the process exit status (-1: still running)
    marked,                  \* sensors whose worker called _mark_camera_complete
    capDone,                 \* sensors that reported the end of their capture
    procDone,                \* sensors whose data has been finalized/persisted
    errorSeen,               \* an exception, failure or interrupt occurred
    forced,                  \* cleanup() set capture_complete_event itself
    enq,                     \* loop indices whose frame the FLIR worker enqueued
    skipped                  \* loop indices whose frame was incomplete (skipped)

vars == <<ctrl, mainPc, RUNNING, ACQUISITION_FLAG, completed_cameras,
          capture_complete_event, flir_queue, images, saved, wpc, fi, ppc, hw,
          serOpen, serExc, pulses, trigFailed, trigSeen, waitOutcome, scRet,
          retval, exitCode, marked, capDone, procDone, errorSeen, forced,
          enq, skipped>>

mainVars == <<mainPc, scRet, retval, exitCode, waitOutcome>>
trigVars == <<serOpen, serExc, pulses, trigFailed, trigSeen>>
flagVars == <<RUNNING, ACQUISITION_FLAG>>
barrierVars == <<completed_cameras, capture_complete_event, marked, capDone,
                 forced>>
flirVars == <<flir_queue, images, saved, fi>>

\* ThermalCamera's frame pipeline (thermal_lib.py): the SDK thread's
\* frame_callback produces into frame_queue, _async_copy_worker consumes.
VARIABLES
    frame_queue,             \* self.frame_queue: the queued frame indices
    is_capturing,            \* self.is_capturing
    captured_count,          \* self.captured_count
    copied,                  \* indices _async_copy_worker copied to frame_buffer
    dropped,                 \* indices frame_callback evicted, in eviction order
    cbPc,                    \* position of frame_callback
    evictLeft,               \* iterations left of frame_callback's eviction loop
    copyPc,                  \* position of _async_copy_worker
    copyItem,                \* index the copy worker is writing (-1: none)
    unfinished,              \* frame_queue.unfinished_tasks
    target_count,            \* self.target_count, set by configure_camera
    queue_maxsize            \* frame_queue.maxsize

\* The configuration of the pipeline, which no action changes.
sizeVars == <<target_count, queue_maxsize>>

thermVars == <<frame_queue, is_capturing, captured_count, copied, dropped, cbPc,
               evictLeft, copyPc, copyItem, unfinished, sizeVars>>

\* cleanup() step by step, with the failures of its steps.
VARIABLES
    tryEnd,                  \* how main's try block ended ("none": still inside)
    clPc,                    \* index of cleanup()'s next step (0: not entered)
    clRun,                   \* cleanup steps that were executed
    clRaised                 \* cleanup steps that raised

cleanVars == <<tryEnd, clPc, clRun, clRaised>>

CleanupInit ==
    /\ tryEnd = "none"
    /\ clPc = 0
    /\ clRun = {}
    /\ clRaised = {}

\* The live-stream pairing of sync_2_fr.py (_try_sync_stream and its callers).
VARIABLES
    flir_frame_count,            \* self._flir_frame_count
    thermal_frame_count,         \* self._thermal_frame_count
    latest_flir,                 \* self.latest_flir (frame number, 0: None)
    latest_thermal,              \* self.latest_thermal (frame number, 0: None)
    latest_flir_stream_id,       \* self.latest_flir_stream_id
    latest_thermal_stream_id,    \* self.latest_thermal_stream_id
    flir_ready_for_stream,       \* self.flir_ready_for_stream
    thermal_ready_for_stream,    \* self.thermal_ready_for_stream
    stream_lock,                 \* holder of self.stream_lock ("free" if none)
    flirStopped,                 \* the FLIR worker left its loop on an exception
    thermal_frames,              \* thermal frames _async_copy_worker has handled
    pushed                       \* composites handed to streamPiper.push

streamVars == <<flir_frame_count, thermal_frame_count, latest_flir,
                latest_thermal, latest_flir_stream_id, latest_thermal_stream_id,
                flir_ready_for_stream, thermal_ready_for_stream, stream_lock,
                flirStopped, thermal_frames, pushed>>

\* start_capture's reset of the stream counters and flags (sync_2_fr.py).
StreamInit ==
    /\ flir_frame_count = 0
    /\ thermal_frame_count = 0
    /\ latest_flir = 0
    /\ latest_thermal = 0
    /\ latest_flir_stream_id = -1
    /\ latest_thermal_stream_id = -1
    /\ flir_ready_for_stream = FALSE
    /\ thermal_ready_for_stream = FALSE
    /\ stream_lock = "free"
    /\ flirStopped = FALSE
    /\ thermal_frames = 0
    /\ pushed = <<>>

\* One session of ThermalCamera as its owner drives it: the thread inside
\* wait_for_completion, process_frames in the camera's own pool, and
\* ThermalCamera.cleanup called by the controller's cleanup().
VARIABLES
    wfcPc,                   \* position of the thread in wait_for_completion
    procPc,                  \* position of process_frames
    procN,                   \* process_frames' num_frames_to_save
    procI,                   \* frames process_frames has submitted
    procW,                   \* frames process_frames has waited for
    processed_count,         \* process_frames' local processed_count
    failed,                  \* slots whose _process_single_frame returned False
    persisted,               \* frame_buffer slots written to disk
    pendingTasks,            \* _process_single_frame tasks waiting for a thread
    tclPc,                   \* position of ThermalCamera.cleanup
    execDown                 \* ThermalCamera.executor has been shut down

sessVars == <<wfcPc, procPc, procN, procI, procW, processed_count, failed,
              persisted, pendingTasks, tclPc, execDown>>

\* wait_for_completion not entered, nothing processed, cleanup not called.
SessionInit ==
    /\ wfcPc = "loop"
    /\ procPc = "off"
    /\ procN = 0
    /\ procI = 0
    /\ procW = 0
    /\ processed_count = 0
    /\ failed = {}
    /\ persisted = {}
    /\ pendingTasks = {}
    /\ tclPc = "off"
    /\ execDown = FALSE

\* The DAVIS recording script (sync_davis_flir/Trigger.py): its recording
\* loop and the trigger assertions after it.
VARIABLES
    davisPc,                 \* position of the script
    flag_rising_edge,        \* flag_rising_edge
    flag_falling_edge,       \* flag_falling_edge
    triggers_list            \* triggers_list: the trigger batches written

davisVars == <<davisPc, flag_rising_edge, flag_falling_edge, triggers_list>>

\* Lines 60-62: no batch recorded, no edge seen, the loop about to start.
DavisInit ==
    /\ davisPc = "loop"
    /\ flag_rising_edge = FALSE
    /\ flag_falling_edge = FALSE
    /\ triggers_list = <<>>

\* ThermalCamera of thermal_lib_lhy.py: the SDK thread's frame_callback and
\* the owner thread in start_capture / wait_for_completion.
VARIABLES
    lhy_is_capturing,        \* self.is_capturing
    lhy_is_processing,       \* self.is_processing
    lhy_captured_count,      \* self.captured_count
    lhy_mutex,               \* holder of self.mutex ("free" if none)
    lhyCbPc,                 \* position of frame_callback
    lhyPc,                   \* position of the owner thread
    last_count,              \* wait_for_completion's local last_count
    process_starts           \* threads started with target=self.process_frames

lhyVars == <<lhy_is_capturing, lhy_is_processing, lhy_captured_count, lhy_mutex,
             lhyCbPc, lhyPc, last_count, process_starts>>

\* __init__ and configure_camera: not capturing, nothing captured.
LhyInit ==
    /\ lhy_is_capturing = FALSE
    /\ lhy_is_processing = FALSE
    /\ lhy_captured_count = 0
    /\ lhy_mutex = "free"
    /\ lhyCbPc = "idle"
    /\ lhyPc = "new"
    /\ last_count = 0
    /\ process_starts = 0

\* State of the stand-alone components, which no other action touches.
extVars == <<davisVars, lhyVars>>

\* State of the component models, which no controller action touches.
compVars == <<thermVars, cleanVars, streamVars, sessVars, extVars>>

\* What every controller action but the FLIR worker's loop body leaves alone.
auxVars == <<compVars, enq, skipped>>

\* ThermalCamera.__init__: an empty queue, not capturing.
ThermalInit ==
    /\ frame_queue = <<>>
    /\ is_capturing = FALSE
    /\ captured_count = 0
    /\ copied = {}
    /\ dropped = <<>>
    /\ cbPc = "idle"
    /\ evictLeft = 0
    /\ copyPc = "off"
    /\ copyItem = -1
    /\ unfinished = 0

\* State after main() has set RUNNING = 1, ACQUISITION_FLAG = 0 and constructed
\* the controller (__init__), before initialize_cameras; the thermal camera is
\* configured for n frames and its queue holds up to cap entries.
Start(n, cap) ==
    /\ target_count = n
    /\ queue_maxsize = cap
    /\ ctrl \in Ctrl
    /\ mainPc = "init"
    /\ RUNNING = 1
    /\ ACQUISITION_FLAG = 0
    /\ completed_cameras = 0
    /\ capture_complete_event = FALSE
    /\ flir_queue = <<>>
    /\ images = {}
    /\ saved = {}
    /\ wpc = [s \in AllSensors |-> "off"]
    /\ fi = 0
    /\ ppc = [s \in AllSensors |-> "off"]
    /\ hw = [s \in AllSensors |-> "ok"]
    /\ serOpen = FALSE
    /\ serExc = "none"
    /\ pulses = 0
    /\ trigFailed = FALSE
    /\ trigSeen = "none"
    /\ waitOutcome = "none"
    /\ scRet = "none"
    /\ retval = "none"
    /\ exitCode = -1
    /\ marked = {}
    /\ capDone = {}
    /\ procDone = {}
    /\ errorSeen = FALSE
    /\ forced = FALSE
    /\ enq = {}
    /\ skipped = {}
    /\ ThermalInit
    /\ CleanupInit
    /\ StreamInit
    /\ SessionInit
    /\ DavisInit
    /\ LhyInit

Init == Start(TargetCount, QueueCap)

\* The same state with the smaller thermal configuration.
SessionStart == Start(SessionFrames, SessionQueueCap)

\* What _init_<sensor> returns for hardware behaviour h ("ok", "fail": the SDK
\* reports no device / no connection, "raise": an SDK call raises).
\*   flir:    `if not self.flir.initialize(): return False`, except -> False
\*   event:   `if not self.prophesee_cam.config_prophesee(): return False`
\*   thermal: ThermalCamera.connect overwrites sdk_isconnect's answer with
\*            is_connected = True and returns True; configure_camera then
\*            succeeds; only an exception makes _init_thermal return False.
InitResult(s, h) ==
    IF s = "thermal" THEN h # "raise" ELSE h = "ok"

\* The process exit status: `sys.exit(0) if main() else sys.exit(1)`; the
\* SIGINT handler's sys.exit(0) ends the process with status 0.
ExitStatusOfMain(r) == IF r = "true" THEN 0 ELSE 1
ExitStatus(r) == IF r \in {"true", "sysexit"} THEN 0 ELSE 1

\* _flir_capture_worker's `for i in range(NUM_IMAGES)`: the value of i for the
\* next pass after a frame with outcome o.  `continue` on an incomplete frame
\* goes to the next value of i like a completed pass does.
NextIndexRetry(i, o) == IF o = "incomplete" THEN i ELSE i + 1
NextIndex(i, o) == i + 1

\* start_recording's test on every batch of events:
\* `if ACQUISITION_FLAG.value == 1 or not RUNNING.value: break`.
StopRecordingOnFlag(flag, running) == flag = 1
StopRecording(flag, running) == flag = 1 \/ running = 0

\* _save_flir_data: the indices handed to flir._save_data.  fr skips index 0.
SavedIndices(c, imgs) == IF c = "fr" THEN {i \in imgs : i > 0} ELSE imgs

\* _flir_data_processor's test on the item it got: `if data is None: break`.
IsEndSignalNever(data) == FALSE
IsEndSignal(data) == data = NoneItem

\* _flir_data_processor's queue.Empty branch:
\* `if self.capture_complete_event.is_set(): break` else `continue`.
BreakOnEmptyAlways(ev) == TRUE
BreakOnEmpty(ev) == ev

Finished(pcs) == \A s \in AllSensors : pcs[s] \in {"off", "done", "crashed"}

\* ThreadPoolExecutor.shutdown in cleanup(): wait=True blocks until every
\* submitted task has returned; re calls shutdown(wait=False).
ShutdownWaits(c) == c # "re"

--------------------------------------------------------------------------
\* main(): controller.initialize_cameras() and the test on its result.
Initialize ==
    /\ mainPc = "init"
    /\ \E h \in [Sensors(ctrl) -> {"ok", "fail", "raise"}] :
         /\ hw' = [s \in AllSensors |-> IF s \in Sensors(ctrl) THEN h[s] ELSE "ok"]
         /\ errorSeen' = (errorSeen \/ \E s \in Sensors(ctrl) : h[s] # "ok")
         /\ IF \A s \in Sensors(ctrl) : InitResult(s, h[s])
              THEN mainPc' = "sc_reset" /\ retval' = retval
              ELSE mainPc' = "cl_stop" /\ retval' = "false"
    /\ UNCHANGED <<ctrl, auxVars, flagVars, barrierVars, flirVars, wpc, ppc, trigVars,
                   waitOutcome, scRet, exitCode, procDone>>

\* start_capture: reset of the barrier state, the flags and the queue.
SC_Reset ==
    /\ mainPc = "sc_reset"
    /\ completed_cameras' = 0
    /\ capture_complete_event' = FALSE
    /\ ACQUISITION_FLAG' = IF ctrl = "th" THEN ACQUISITION_FLAG ELSE 0
    /\ RUNNING' = 1
    /\ flir_queue' = <<>>
    /\ mainPc' = "sc_procs"
    /\ UNCHANGED <<ctrl, auxVars, images, saved, fi, wpc, ppc, hw, trigVars, waitOutcome,
                   scRet, retval, exitCode, marked, capDone, procDone, errorSeen, forced>>

\* start_capture: executor.submit of the data processors.
SC_SubmitProcessors ==
    /\ mainPc = "sc_procs"
    /\ ppc' = [s \in AllSensors |->
                 IF s \notin Processors(ctrl) THEN "off"
                 ELSE IF s = "flir" THEN "drain"
                 ELSE IF s = "thermal" /\ ctrl = "fr" THEN "pass"
                 ELSE "waitev"]
    /\ mainPc' = IF "flir" \in Sensors(ctrl) THEN "sc_config" ELSE "sc_workers"
    /\ UNCHANGED <<ctrl, auxVars, flagVars, barrierVars, flirVars, wpc, hw, trigVars,
                   waitOutcome, scRet, retval, exitCode, procDone, errorSeen>>

\* start_capture (fe, fr): cam.Init, config_camera, BeginAcquisition.
\* config_camera returning False -> `return False`; an exception -> the except
\* branch, `return False` (fr also clears RUNNING).
SC_Config ==
    /\ mainPc = "sc_config"
    /\ \E o \in {"ok", "fail", "raise"} :
         /\ mainPc' = IF o = "ok" THEN "sc_workers" ELSE "m_check"
         /\ scRet' = IF o = "ok" THEN scRet ELSE "False"
         /\ RUNNING' = IF o = "raise" /\ ctrl = "fr" THEN 0 ELSE RUNNING
         /\ errorSeen' = (errorSeen \/ o # "ok")
    /\ UNCHANGED <<ctrl, auxVars, ACQUISITION_FLAG, barrierVars, flirVars, wpc, ppc, hw,
                   trigVars, waitOutcome, retval, exitCode, procDone>>

\* start_capture: executor.submit of the capture workers.
SC_SubmitWorkers ==
    /\ mainPc = "sc_workers"
    /\ wpc' = [s \in AllSensors |->
                 IF s \notin Sensors(ctrl) THEN "off"
                 ELSE IF s = "flir" THEN "loop"
                 ELSE IF s = "event" THEN "rec"
                 ELSE "start"]
    /\ mainPc' = "trig_open"
    /\ UNCHANGED <<ctrl, auxVars, flagVars, barrierVars, flirVars, ppc, hw, trigVars,
                   waitOutcome, scRet, retval, exitCode, procDone, errorSeen>>

\* send_pulse_command: `ser = serial.Serial(...)`.
TrigOpen ==
    /\ mainPc = "trig_open"
    /\ \E o \in {"ok", "serial"} :
         /\ serOpen' = (o = "ok")
         /\ serExc' = IF o = "ok" THEN "none" ELSE "serial"
         /\ trigFailed' = (o # "ok")
         /\ errorSeen' = (errorSeen \/ o # "ok")
         /\ mainPc' = IF o = "ok" THEN "trig_write" ELSE "trig_finally"
    /\ UNCHANGED <<ctrl, auxVars, flagVars, barrierVars, flirVars, wpc, ppc, hw, pulses,
                   trigSeen, waitOutcome, scRet, retval, exitCode, procDone>>

\* send_pulse_command: `ser.write(command.encode())`.
TrigWrite ==
    /\ mainPc = "trig_write"
    /\ \E o \in {"ok", "serial", "other"} :
         /\ pulses' = WriteCommand(pulses, o)
         /\ serExc' = IF o = "ok" THEN "none" ELSE o
         /\ trigFailed' = (o # "ok")
         /\ errorSeen' = (errorSeen \/ o # "ok")
    /\ mainPc' = "trig_finally"
    /\ UNCHANGED <<ctrl, auxVars, flagVars, barrierVars, flirVars, wpc, ppc, hw, serOpen,
                   trigSeen, waitOutcome, scRet, retval, exitCode, procDone>>

\* send_pulse_command: the except/finally blocks and the return to the caller.
\* An exception that propagates is caught by start_capture's try (fe, fr, re0:
\* `return False`, fr clears RUNNING) or by main's `except Exception` (re, th).
TrigFinally ==
    /\ mainPc = "trig_finally"
    /\ serOpen' = FinallyClose(serOpen, serOpen, serExc)
    /\ trigSeen' = PulseOutcome(serExc)
    /\ serExc' = "none"
    /\ IF PulseOutcome(serExc) = "normal"
         THEN mainPc' = "wait" /\ UNCHANGED <<scRet, retval, RUNNING>>
         ELSE IF ctrl \in {"fe", "fr", "re0"}
           THEN /\ mainPc' = "m_check"
                /\ scRet' = "False"
                /\ RUNNING' = IF ctrl = "fr" THEN 0 ELSE RUNNING
                /\ retval' = retval
           ELSE /\ mainPc' = "cl_stop"
                /\ retval' = "false"
                /\ UNCHANGED <<scRet, RUNNING>>
    /\ UNCHANGED <<ctrl, auxVars, ACQUISITION_FLAG, barrierVars, flirVars, wpc, ppc, hw,
                   pulses, trigFailed, waitOutcome, exitCode, procDone, errorSeen>>

\* capture_complete_event.wait(timeout=...) returns True: the event is set.
WaitSet ==
    /\ mainPc = "wait"
    /\ capture_complete_event
    /\ waitOutcome' = "set"
    /\ mainPc' = "sc_end"
    /\ UNCHANGED <<ctrl, auxVars, flagVars, barrierVars, flirVars, wpc, ppc, hw, trigVars,
                   scRet, retval, exitCode, procDone, errorSeen>>

\* capture_complete_event.wait(timeout=...) returns False: the timeout elapsed
\* with the event still unset.
WaitTimeout ==
    /\ mainPc = "wait"
    /\ ~capture_complete_event
    /\ waitOutcome' = "timeout"
    /\ errorSeen' = TRUE
    /\ mainPc' = "sc_end"
    /\ UNCHANGED <<ctrl, auxVars, flagVars, barrierVars, flirVars, wpc, ppc, hw, trigVars,
                   scRet, retval, exitCode, procDone>>

\* start_capture after the wait: the FLIR teardown (fe, fr: reset, EndAcquisition,
\* DeInit; an exception -> `return False`, fr clears RUNNING), re's wait on the
\* processor futures, th's RUNNING = 0 on timeout, and the return statement.
SC_End ==
    /\ mainPc = "sc_end"
    /\ \E o \in {"ok", "raise"} :
         /\ o = "raise" => "flir" \in Sensors(ctrl)
         /\ scRet' = IF o = "raise" THEN "False"
                     ELSE StartCaptureReturn(ctrl, waitOutcome = "set")
         /\ RUNNING' = IF (o = "raise" /\ ctrl = "fr")
                          \/ (ctrl = "th" /\ waitOutcome = "timeout")
                       THEN 0 ELSE RUNNING
         /\ errorSeen' = (errorSeen \/ o = "raise")
    /\ mainPc' = "m_check"
    /\ UNCHANGED <<ctrl, auxVars, ACQUISITION_FLAG, barrierVars, flirVars, wpc, ppc, hw,
                   trigVars, waitOutcome, retval, exitCode, procDone>>

\* main(): `if not controller.start_capture(): return False`.
M_Check ==
    /\ mainPc = "m_check"
    /\ IF Truthy(scRet)
         THEN mainPc' = "m_sleep" /\ retval' = retval
         ELSE mainPc' = "cl_stop" /\ retval' = "false"
    /\ UNCHANGED <<ctrl, auxVars, flagVars, barrierVars, flirVars, wpc, ppc, hw, trigVars,
                   waitOutcome, scRet, exitCode, procDone, errorSeen>>

\* main(): time.sleep(1); print("采集完成"); return True.
M_Report ==
    /\ mainPc = "m_sleep"
    /\ retval' = "true"
    /\ mainPc' = "cl_stop"
    /\ UNCHANGED <<ctrl, auxVars, flagVars, barrierVars, flirVars, wpc, ppc, hw, trigVars,
                   waitOutcome, scRet, exitCode, procDone, errorSeen>>

\* cleanup(): RUNNING.value = 0.
CL_Stop ==
    /\ mainPc = "cl_stop"
    /\ RUNNING' = 0
    /\ mainPc' = "cl_sentinel"
    /\ UNCHANGED <<ctrl, auxVars, ACQUISITION_FLAG, barrierVars, flirVars, wpc, ppc, hw,
                   trigVars, waitOutcome, scRet, retval, exitCode, procDone,
                   errorSeen>>

\* cleanup(): self.flir_queue.put(None) (fe, fr).  re puts None into
\* thermal_queue, which no thread reads; re0 and th have no such step.
CL_Sentinel ==
    /\ mainPc = "cl_sentinel"
    /\ flir_queue' = IF ctrl \in {"fe", "fr"}
                     THEN Append(flir_queue, NoneItem) ELSE flir_queue
    /\ mainPc' = "cl_event"
    /\ UNCHANGED <<ctrl, auxVars, flagVars, barrierVars, images, saved, fi, wpc, ppc, hw,
                   trigVars, waitOutcome, scRet, retval, exitCode, procDone,
                   errorSeen>>

\* cleanup(): `if not self.capture_complete_event.is_set(): ...set()`.
CL_Event ==
    /\ mainPc = "cl_event"
    /\ capture_complete_event' = TRUE
    /\ forced' = (forced \/ ~capture_complete_event)
    /\ mainPc' = "cl_shutdown"
    /\ UNCHANGED <<ctrl, auxVars, flagVars, completed_cameras, marked, capDone, flirVars, wpc, ppc,
                   hw, trigVars, waitOutcome, scRet, retval, exitCode, procDone,
                   errorSeen>>

\* cleanup(): executor.shutdown and the cameras' cleanup; then main returns and
\* the process exits with sys.exit(0) or sys.exit(1).
CL_Shutdown ==
    /\ mainPc = "cl_shutdown"
    /\ ShutdownWaits(ctrl) => Finished(wpc) /\ Finished(ppc)
    /\ mainPc' = "exit"
    /\ exitCode' = ExitStatus(retval)
    /\ UNCHANGED <<ctrl, auxVars, flagVars, barrierVars, flirVars, wpc, ppc, hw, trigVars,
                   waitOutcome, scRet, retval, procDone, errorSeen>>

\* signal_handler (SIGINT) while main is inside its try block: RUNNING = 0,
\* executor.shutdown(wait=False), sys.exit(0).  SystemExit is not an Exception:
\* it passes start_capture's and main's except branches, runs the finally
\* blocks (send_pulse_command's close, main's cleanup) and ends the process.
InTry == {"init", "sc_reset", "sc_procs", "sc_config", "sc_workers", "trig_open",
          "trig_write", "trig_finally", "wait", "sc_end", "m_check", "m_sleep"}

Interrupt ==
    /\ mainPc \in InTry
    /\ RUNNING' = 0
    /\ retval' = "sysexit"
    /\ errorSeen' = TRUE
    /\ serOpen' = IF mainPc \in {"trig_write", "trig_finally"}
                  THEN FinallyClose(serOpen, serOpen, "exit") ELSE serOpen
    /\ serExc' = "none"
    /\ trigSeen' = IF mainPc \in {"trig_open", "trig_write", "trig_finally"}
                   THEN "raised" ELSE trigSeen
    /\ mainPc' = "cl_stop"
    /\ UNCHANGED <<ctrl, auxVars, ACQUISITION_FLAG, barrierVars, flirVars, wpc, ppc, hw,
                   pulses, trigFailed, waitOutcome, scRet, exitCode, procDone>>

--------------------------------------------------------------------------
\* The except branch of a capture worker: print, RUNNING.value = 0 (not fr's
\* thermal worker) and, in th and in re0's event worker, _mark_camera_complete.
Crash(s) ==
    /\ wpc' = [wpc EXCEPT ![s] = "crashed"]
    /\ RUNNING' = IF ClearsRunningOnError(ctrl, s) THEN 0 ELSE RUNNING
    /\ errorSeen' = TRUE
    /\ IF MarksOnError(ctrl, s)
         THEN LET m == MarkComplete(completed_cameras, capture_complete_event,
                                    Threshold(ctrl))
              IN /\ completed_cameras' = m.cnt
                 /\ capture_complete_event' = m.ev
                 /\ marked' = marked \cup {s}
                 /\ capDone' = capDone \cup {s}
                 /\ forced' = forced
         ELSE UNCHANGED barrierVars

\* _flir_capture_worker: top of the for loop, `if RUNNING.value == 0: break`,
\* and the loop's natural end after NUM_IMAGES iterations.
FlirLoop ==
    /\ wpc["flir"] = "loop"
    /\ wpc' = [wpc EXCEPT !["flir"] =
                 IF fi >= MaxImages \/ RUNNING = 0 THEN "end" ELSE "get"]
    /\ UNCHANGED <<ctrl, auxVars, mainVars, flagVars, barrierVars, flirVars, ppc, hw,
                   trigVars, procDone, errorSeen>>

\* _flir_capture_worker: cam.GetNextImage(1000) and the rest of the loop body.
\* A complete image is put into flir_queue under index i; an incomplete one is
\* released and skipped with `continue`; either way the for loop advances i.
FlirGetImage ==
    /\ wpc["flir"] = "get"
    /\ \E o \in {"complete", "incomplete"} :
         /\ flir_queue' = IF o = "complete" THEN Append(flir_queue, fi)
                          ELSE flir_queue
         /\ enq' = IF o = "complete" THEN enq \cup {fi} ELSE enq
         /\ skipped' = IF o = "incomplete" THEN skipped \cup {fi} ELSE skipped
         /\ errorSeen' = (errorSeen \/ o = "incomplete")
         /\ fi' = NextIndex(fi, o)
    /\ wpc' = [wpc EXCEPT !["flir"] = "loop"]
    /\ UNCHANGED <<ctrl, compVars, mainVars, flagVars, barrierVars, images, saved,
                   ppc, hw, trigVars, procDone>>

\* _flir_capture_worker: GetNextImage (or GetNDArray, read_chunk_data) raises.
FlirRaise ==
    /\ wpc["flir"] = "get"
    /\ Crash("flir")
    /\ UNCHANGED <<ctrl, auxVars, mainVars, ACQUISITION_FLAG, flirVars, ppc, hw, trigVars,
                   procDone>>

\* start_recording's loop in the event worker: one pass of
\* `if ACQUISITION_FLAG.value == 1 or not RUNNING.value: break`, then
\* stop_recording and the return to _prophesee_capture_worker.
EventStop ==
    /\ wpc["event"] = "rec"
    /\ StopRecording(ACQUISITION_FLAG, RUNNING)
    /\ wpc' = [wpc EXCEPT !["event"] = "mark"]
    /\ UNCHANGED <<ctrl, auxVars, mainVars, flagVars, barrierVars, flirVars, ppc, hw,
                   trigVars, procDone, errorSeen>>

\* re0 only: recording_complete.wait(timeout) expires in the event worker,
\* which calls stop_recording itself and goes on to _mark_camera_complete.
EventRecTimeout ==
    /\ ctrl = "re0"
    /\ wpc["event"] = "rec"
    /\ wpc' = [wpc EXCEPT !["event"] = "mark"]
    /\ errorSeen' = TRUE
    /\ UNCHANGED <<ctrl, auxVars, mainVars, flagVars, barrierVars, flirVars, ppc, hw,
                   trigVars, procDone>>

\* The event camera's iterator (or log_raw_data) raises inside start_recording.
EventRaise ==
    /\ wpc["event"] = "rec"
    /\ Crash("event")
    /\ UNCHANGED <<ctrl, auxVars, mainVars, ACQUISITION_FLAG, flirVars, ppc, hw, trigVars,
                   procDone>>

\* _thermal_capture_worker: thermal_cam.start_capture() returns True.
ThermalStart ==
    /\ wpc["thermal"] = "start"
    /\ wpc' = [wpc EXCEPT !["thermal"] = "capturing"]
    /\ UNCHANGED <<ctrl, auxVars, mainVars, flagVars, barrierVars, flirVars, ppc, hw,
                   trigVars, procDone, errorSeen>>

\* wait_for_completion: the `while self.is_capturing` loop ends (the frame
\* count was reached, or its 30 s limit forced is_capturing = False) and the
\* end of the capture is printed ("红外相机采集完成: n/m").
ThermalCaptureEnd ==
    /\ wpc["thermal"] = "capturing"
    /\ wpc' = [wpc EXCEPT !["thermal"] = "processing"]
    /\ capDone' = capDone \cup {"thermal"}
    /\ UNCHANGED <<ctrl, auxVars, mainVars, flagVars, completed_cameras,
                   capture_complete_event, marked, forced, flirVars, ppc, hw,
                   trigVars, procDone, errorSeen>>

\* wait_for_completion: copy worker joined, process_frames run (or timed out);
\* wait_for_completion returns to _thermal_capture_worker.
ThermalProcessEnd ==
    /\ wpc["thermal"] = "processing"
    /\ procDone' = procDone \cup {"thermal"}
    /\ wpc' = [wpc EXCEPT !["thermal"] = "end"]
    /\ UNCHANGED <<ctrl, auxVars, mainVars, flagVars, barrierVars, flirVars, ppc, hw,
                   trigVars, errorSeen>>

\* thermal_cam.start_capture() or wait_for_completion() raises.
ThermalRaise ==
    /\ wpc["thermal"] \in {"start", "capturing", "processing"}
    /\ Crash("thermal")
    /\ UNCHANGED <<ctrl, auxVars, mainVars, ACQUISITION_FLAG, flirVars, ppc, hw, trigVars,
                   procDone>>

\* After the capture loop: `ACQUISITION_FLAG.value = 1` in the workers that
\* pace the event camera (fe's FLIR worker, re's thermal worker).
WorkerEnd ==
    \E s \in {"flir", "thermal"} :
       /\ wpc[s] = "end"
       /\ ACQUISITION_FLAG' = IF SetsAcqFlag(ctrl, s) THEN 1 ELSE ACQUISITION_FLAG
       /\ wpc' = [wpc EXCEPT ![s] = "mark"]
       /\ UNCHANGED <<ctrl, auxVars, mainVars, RUNNING, barrierVars, flirVars, ppc, hw,
                      trigVars, procDone, errorSeen>>

\* _mark_camera_complete, called by a capture worker on its normal path.
WorkerMark ==
    \E s \in AllSensors :
       /\ wpc[s] = "mark"
       /\ LET m == MarkComplete(completed_cameras, capture_complete_event,
                                Threshold(ctrl))
          IN /\ completed_cameras' = m.cnt
             /\ capture_complete_event' = m.ev
       /\ marked' = marked \cup {s}
       /\ capDone' = capDone \cup {s}
       /\ wpc' = [wpc EXCEPT ![s] = "done"]
       /\ UNCHANGED <<ctrl, auxVars, mainVars, flagVars, forced, flirVars, ppc, hw,
                      trigVars, procDone, errorSeen>>

--------------------------------------------------------------------------
\* _flir_data_processor: flir_queue.get(timeout=5) returns an item.  None ends
\* the loop; a frame is stored under its index.  The processor is at the get
\* when it entered the loop or stored a frame ("drain"), and when its last get
\* timed out and it finds the event unset (`continue`).
FlirProcGet ==
    /\ \/ ppc["flir"] = "drain"
       \/ ppc["flir"] = "empty" /\ ~BreakOnEmpty(capture_complete_event)
    /\ flir_queue # <<>>
    /\ flir_queue' = Tail(flir_queue)
    /\ IF IsEndSignal(Head(flir_queue))
         THEN ppc' = [ppc EXCEPT !["flir"] = "save"] /\ images' = images
         ELSE ppc' = [ppc EXCEPT !["flir"] = "drain"]
              /\ images' = images \cup {Head(flir_queue)}
    /\ UNCHANGED <<ctrl, auxVars, mainVars, flagVars, barrierVars, saved, fi, wpc, hw,
                   trigVars, procDone, errorSeen>>

\* _flir_data_processor: the get times out, the queue having stayed empty:
\* queue.Empty is raised.
FlirProcTimeout ==
    /\ ppc["flir"] = "drain"
    /\ flir_queue = <<>>
    /\ ppc' = [ppc EXCEPT !["flir"] = "empty"]
    /\ UNCHANGED <<ctrl, auxVars, mainVars, flagVars, barrierVars, flirVars, wpc, hw,
                   trigVars, procDone, errorSeen>>

\* _flir_data_processor's `except queue.Empty` branch finds
\* capture_complete_event set: break.  (Unset: `continue`, back to the get.)
FlirProcEmpty ==
    /\ ppc["flir"] = "empty"
    /\ BreakOnEmpty(capture_complete_event)
    /\ ppc' = [ppc EXCEPT !["flir"] = "save"]
    /\ UNCHANGED <<ctrl, auxVars, mainVars, flagVars, barrierVars, flirVars, wpc, hw,
                   trigVars, procDone, errorSeen>>

\* _flir_data_processor: _save_flir_data(images, ...) after the loop.
FlirProcSave ==
    /\ ppc["flir"] = "save"
    /\ saved' = SavedIndices(ctrl, images)
    /\ procDone' = procDone \cup {"flir"}
    /\ ppc' = [ppc EXCEPT !["flir"] = "done"]
    /\ UNCHANGED <<ctrl, auxVars, mainVars, flagVars, barrierVars, flir_queue, images, fi,
                   wpc, hw, trigVars, errorSeen>>

\* _event_data_processor: capture_complete_event.wait() returns, then
\* prophesee_tirgger_found extracts the triggers from the recorded file.
EventProc ==
    /\ ppc["event"] = "waitev"
    /\ capture_complete_event
    /\ procDone' = procDone \cup {"event"}
    /\ ppc' = [ppc EXCEPT !["event"] = "done"]
    /\ UNCHANGED <<ctrl, auxVars, mainVars, flagVars, barrierVars, flirVars, wpc, hw,
                   trigVars, errorSeen>>

\* _thermal_data_processor: a placeholder thread.  fr: `pass`; re, th:
\* capture_complete_event.wait() and a sleep.  The thermal data itself is
\* persisted by wait_for_completion inside the capture worker.
ThermalProc ==
    /\ \/ ppc["thermal"] = "pass"
       \/ ppc["thermal"] = "waitev" /\ capture_complete_event
    /\ ppc' = [ppc EXCEPT !["thermal"] = "done"]
    /\ UNCHANGED <<ctrl, auxVars, mainVars, flagVars, barrierVars, flirVars, wpc, hw,
                   trigVars, procDone, errorSeen>>

--------------------------------------------------------------------------
Next ==
    \/ Initialize
    \/ SC_Reset
    \/ SC_SubmitProcessors
    \/ SC_Config
    \/ SC_SubmitWorkers
    \/ TrigOpen
    \/ TrigWrite
    \/ TrigFinally
    \/ WaitSet
    \/ WaitTimeout
    \/ SC_End
    \/ M_Check
    \/ M_Report
    \/ CL_Stop
    \/ CL_Sentinel
    \/ CL_Event
    \/ CL_Shutdown
    \/ Interrupt
    \/ FlirLoop
    \/ FlirGetImage
    \/ FlirRaise
    \/ EventStop
    \/ EventRecTimeout
    \/ EventRaise
    \/ ThermalStart
    \/ ThermalCaptureEnd
    \/ ThermalProcessEnd
    \/ ThermalRaise
    \/ WorkerEnd
    \/ WorkerMark
    \/ FlirProcGet
    \/ FlirProcTimeout
    \/ FlirProcEmpty
    \/ FlirProcSave
    \/ EventProc
    \/ ThermalProc

Spec == Init /\ [][Next]_vars

\* The steps a live thread takes by itself: every call returns, every bounded
\* wait returns when its event is set or its timeout has passed.  SDK
\* exceptions and SIGINT may happen but are not bound to.
Progress ==
    \/ Initialize \/ SC_Reset \/ SC_SubmitProcessors \/ SC_Config
    \/ SC_SubmitWorkers \/ TrigOpen \/ TrigWrite \/ TrigFinally
    \/ WaitSet \/ WaitTimeout \/ SC_End \/ M_Check \/ M_Report
    \/ CL_Stop \/ CL_Sentinel \/ CL_Event \/ CL_Shutdown
    \/ FlirLoop \/ FlirGetImage \/ EventStop \/ EventRecTimeout
    \/ ThermalStart \/ ThermalCaptureEnd \/ ThermalProcessEnd
    \/ WorkerEnd \/ WorkerMark
    \/ FlirProcGet \/ FlirProcTimeout \/ FlirProcEmpty \/ FlirProcSave \/ EventProc \/ ThermalProc

FairSpec == Spec /\ WF_vars(Progress)

--------------------------------------------------------------------------
\* cleanup() of each controller, statement by statement.

\* The teardown steps in the order cleanup() lists them:
\*   "stop"     RUNNING.value = 0
\*   "sentinel" <queue>.put(None)          (fe, fr: flir_queue; re: thermal_queue)
\*   "event"    capture_complete_event.set() when unset
\*   "shutdown" executor.shutdown(...)
\*   "thermal", "flir", "prophesee": the camera's cleanup block
CleanupSteps(c) ==
    CASE c = "fe"  -> <<"stop", "sentinel", "event", "shutdown", "flir", "prophesee">>
      [] c = "fr"  -> <<"stop", "sentinel", "event", "shutdown", "thermal", "flir">>
      [] c = "re"  -> <<"stop", "sentinel", "event", "thermal", "prophesee", "shutdown">>
      [] c = "re0" -> <<"stop", "event", "shutdown", "thermal", "prophesee">>
      [] c = "th"  -> <<"stop", "event", "thermal", "shutdown">>

\* Steps that call into a queue, the executor or a camera SDK and so may raise.
\* (RUNNING.value = 0 and Event.set() are plain in-memory updates; the
\* prophesee block only prints.)
MayRaise(st) == st \in {"sentinel", "shutdown", "thermal", "flir"}

\* Is the step inside a try/except of its own within cleanup()'s outer try?
\* The put has a bare `except: pass`; shutdown and the camera blocks have
\* `except Exception`.  "stop" and "event" sit directly in the outer try.
WrappedNever(st) == FALSE
Wrapped(st) == st \in {"sentinel", "shutdown", "thermal", "flir", "prophesee"}

\* main(): the try block ends, by `return`, by an exception caught by
\* `except Exception` (return False), or by SystemExit from the SIGINT
\* handler; in each case the finally block calls controller.cleanup().
MainLeavesTry ==
    /\ tryEnd = "none"
    /\ \E e \in {"return", "exception", "sysexit"} : tryEnd' = e
    /\ clPc' = 1
    /\ UNCHANGED <<clRun, clRaised>>
    /\ UNCHANGED <<vars, extVars, thermVars, streamVars, sessVars>>

\* One step of cleanup() that completes.
CleanupStep ==
    /\ clPc \in 1..Len(CleanupSteps(ctrl))
    /\ clRun' = clRun \cup {CleanupSteps(ctrl)[clPc]}
    /\ clPc' = clPc + 1
    /\ UNCHANGED <<tryEnd, clRaised>>
    /\ UNCHANGED <<vars, extVars, thermVars, streamVars, sessVars>>

\* One step of cleanup() that raises: its own except block swallows the
\* exception and cleanup goes on with the next step; a step without its own
\* try would end cleanup() in the outer `except Exception`.
CleanupStepRaises ==
    /\ clPc \in 1..Len(CleanupSteps(ctrl))
    /\ MayRaise(CleanupSteps(ctrl)[clPc])
    /\ clRun' = clRun \cup {CleanupSteps(ctrl)[clPc]}
    /\ clRaised' = clRaised \cup {CleanupSteps(ctrl)[clPc]}
    /\ clPc' = IF Wrapped(CleanupSteps(ctrl)[clPc])
               THEN clPc + 1 ELSE Len(CleanupSteps(ctrl)) + 1
    /\ UNCHANGED tryEnd
    /\ UNCHANGED <<vars, extVars, thermVars, streamVars, sessVars>>

CleanupNext ==
    \/ MainLeavesTry
    \/ CleanupStep
    \/ CleanupStepRaises

SpecCleanup == Init /\ [][CleanupNext]_cleanVars

--------------------------------------------------------------------------
\* ThermalCamera's frame pipeline, src/sync/sync_3_camera/thermal_lib.py.

\* frame_callback's eviction loop: `for _ in range(5)`.
EvictBatch == 5

\* put_nowait raises queue.Full when the queue holds maxsize items.
QueueFull(q) == Len(q) >= queue_maxsize

\* queue.Queue.get / get_nowait on a non-empty queue: the item handed out and
\* what stays queued.
GetNewest(q) == [item |-> q[Len(q)], rest |-> SubSeq(q, 1, Len(q) - 1)]
GetNowait(q) == [item |-> Head(q), rest |-> Tail(q)]

\* queue.Queue.task_done: one unfinished task less; called once too often it
\* raises ValueError, which every caller here swallows.
TaskDone(u) == IF u > 0 THEN u - 1 ELSE u

\* frame_callback's test `self.captured_count >= self.target_count`, made at
\* its entry and after each successful put.
ReachedTargetNever(count) == FALSE
ReachedTarget(count) == count >= target_count

\* ThermalCamera.start_capture: drain the queue (without task_done), reset the
\* counters, submit _async_copy_worker.
ThermalStartCapture ==
    /\ copyPc = "off"
    /\ frame_queue' = <<>>
    /\ captured_count' = 0
    /\ is_capturing' = TRUE
    /\ copyPc' = "run"
    /\ UNCHANGED <<copied, dropped, cbPc, evictLeft, copyItem, unfinished>>
    /\ UNCHANGED <<vars, extVars, cleanVars, streamVars, sessVars, sizeVars>>

\* frame_callback, entered by the SDK thread with a frame pointer (valid or
\* null): the tests before the first put_nowait.
FrameCallback ==
    /\ cbPc = "idle"
    /\ \E valid \in BOOLEAN :
         IF ~is_capturing \/ ReachedTarget(captured_count)
           THEN /\ is_capturing' = FALSE
                /\ cbPc' = cbPc
         ELSE IF ~valid
           THEN UNCHANGED <<is_capturing, cbPc>>
           ELSE /\ cbPc' = "checked"
                /\ is_capturing' = is_capturing
    /\ UNCHANGED <<frame_queue, captured_count, copied, dropped, evictLeft,
                   copyPc, copyItem, unfinished>>
    /\ UNCHANGED <<vars, extVars, cleanVars, streamVars, sessVars, sizeVars>>

\* frame_callback: `put_nowait((frame, frame_index))`, the count and the test
\* that ends the capture; queue.Full leads to the eviction loop.
CallbackFirstPut ==
    /\ cbPc = "checked"
    /\ IF ~QueueFull(frame_queue)
         THEN /\ frame_queue' = Append(frame_queue, captured_count)
              /\ unfinished' = unfinished + 1
              /\ captured_count' = captured_count + 1
              /\ is_capturing' = IF ReachedTarget(captured_count + 1)
                                  THEN FALSE ELSE is_capturing
              /\ cbPc' = "idle"
              /\ evictLeft' = evictLeft
         ELSE /\ cbPc' = "evict"
              /\ evictLeft' = EvictBatch
              /\ UNCHANGED <<frame_queue, unfinished, is_capturing,
                             captured_count>>
    /\ UNCHANGED <<copied, dropped, copyPc, copyItem>>
    /\ UNCHANGED <<vars, extVars, cleanVars, streamVars, sessVars, sizeVars>>

\* frame_callback's `except queue.Full` branch: one pass of the loop
\* `if not self.frame_queue.empty(): get_nowait(); task_done()`.
CallbackEvict ==
    /\ cbPc = "evict"
    /\ IF frame_queue # <<>>
         THEN /\ dropped' = Append(dropped, GetNowait(frame_queue).item)
              /\ frame_queue' = GetNowait(frame_queue).rest
              /\ unfinished' = TaskDone(unfinished)
         ELSE UNCHANGED <<dropped, frame_queue, unfinished>>
    /\ evictLeft' = evictLeft - 1
    /\ cbPc' = IF evictLeft - 1 = 0 THEN "put" ELSE "evict"
    /\ UNCHANGED <<is_capturing, captured_count, copied, copyPc, copyItem>>
    /\ UNCHANGED <<vars, extVars, cleanVars, streamVars, sessVars, sizeVars>>

\* frame_callback after the eviction loop: put_nowait of the current frame; a
\* second queue.Full is swallowed by the bare `except: pass`.
CallbackPut ==
    /\ cbPc = "put"
    /\ IF ~QueueFull(frame_queue)
         THEN /\ frame_queue' = Append(frame_queue, captured_count)
              /\ unfinished' = unfinished + 1
              /\ captured_count' = captured_count + 1
              /\ is_capturing' = IF ReachedTarget(captured_count + 1)
                                  THEN FALSE ELSE is_capturing
         ELSE UNCHANGED <<frame_queue, unfinished, captured_count, is_capturing>>
    /\ cbPc' = "idle"
    /\ UNCHANGED <<copied, dropped, evictLeft, copyPc, copyItem>>
    /\ UNCHANGED <<vars, extVars, cleanVars, streamVars, sessVars, sizeVars>>

\* _async_copy_worker: frame_queue.get(timeout=0.1) returns an item.
CopyGet ==
    /\ copyPc = "run"
    /\ frame_queue # <<>>
    /\ LET g == GetNowait(frame_queue)
       IN /\ frame_queue' = g.rest
          /\ copyItem' = g.item
    /\ copyPc' = "copying"
    /\ UNCHANGED <<is_capturing, captured_count, copied, dropped, cbPc, evictLeft,
                   unfinished>>
    /\ UNCHANGED <<vars, extVars, cleanVars, streamVars, sessVars, sizeVars>>

\* _async_copy_worker: the item is copied into frame_buffer when its index is
\* inside the buffer, the realtime callback (fr, re) is called, and the finally
\* block calls task_done.  When the callback raises something other than
\* ValueError or OSError, the outer `except Exception` calls task_done again.
CopyFinish ==
    /\ copyPc = "copying"
    /\ \E o \in {"ok", "callback_raises"} :
         /\ o = "callback_raises" => ctrl \in {"fr", "re"} /\ copyItem > 0
         /\ unfinished' = IF o = "ok" THEN TaskDone(unfinished)
                          ELSE TaskDone(TaskDone(unfinished))
    /\ copied' = IF 0 <= copyItem /\ copyItem < target_count
                  THEN copied \cup {copyItem} ELSE copied
    /\ copyItem' = -1
    /\ copyPc' = "run"
    /\ UNCHANGED <<frame_queue, is_capturing, captured_count, dropped, cbPc,
                   evictLeft>>
    /\ UNCHANGED <<vars, extVars, cleanVars, streamVars, sessVars, sizeVars>>

\* _async_copy_worker: the loop ends (queue empty and is_capturing False).
CopyExit ==
    /\ copyPc = "run"
    /\ frame_queue = <<>>
    /\ ~is_capturing
    /\ copyPc' = "done"
    /\ UNCHANGED <<frame_queue, is_capturing, captured_count, copied, dropped,
                   cbPc, evictLeft, copyItem, unfinished>>
    /\ UNCHANGED <<vars, extVars, cleanVars, streamVars, sessVars, sizeVars>>

\* wait_for_completion: its 30 s limit passes and it forces is_capturing False.
CaptureTimeout ==
    /\ copyPc # "off"
    /\ is_capturing
    /\ is_capturing' = FALSE
    /\ UNCHANGED <<frame_queue, captured_count, copied, dropped, cbPc, evictLeft,
                   copyPc, copyItem, unfinished>>
    /\ UNCHANGED <<vars, extVars, cleanVars, streamVars, sessVars, sizeVars>>

ThermalNext ==
    \/ ThermalStartCapture
    \/ FrameCallback
    \/ CallbackFirstPut
    \/ CallbackEvict
    \/ CallbackPut
    \/ CopyGet
    \/ CopyFinish
    \/ CopyExit
    \/ CaptureTimeout

SpecThermal == Init /\ [][ThermalNext]_thermVars

---------------------------------------------------------------------------
\* One session of ThermalCamera: the controller's _thermal_capture_worker
\* inside wait_for_completion, process_frames and its per-frame tasks in the
\* camera's own pool, and ThermalCamera.cleanup called from the controller's
\* cleanup().  Every bounded wait (sleep, result(timeout=...)) may return on
\* its timeout.

\* ThreadPoolExecutor(max_workers=2) of ThermalCamera.start_capture.
MaxWorkers == 2

\* process_frames: batch_size = 10.
BatchSize == 10

\* Threads of the pool held by _async_copy_worker and process_frames.
BusyThreads ==
    (IF copyPc \in {"run", "copying"} THEN 1 ELSE 0)
    + (IF procPc \in {"start", "submit", "wait"} THEN 1 ELSE 0)

\* A queued task starts only on a pool thread that is free.
CanRun(busy) == busy < MaxWorkers

\* Can the controller's cleanup() call ThermalCamera.cleanup while the
\* capture worker is still inside wait_for_completion?  re and th call it
\* before executor.shutdown; fr and re0 call it after shutdown(wait=True), which
\* returns only when the capture worker has returned.
CleanupWhileRunning(c) == c \in {"re", "th"}

\* wait_for_completion: the `while self.is_capturing` loop ends.
WaitLoopExit ==
    /\ wfcPc = "loop"
    /\ copyPc # "off"
    /\ ~is_capturing
    /\ wfcPc' = "copywait"
    /\ UNCHANGED <<procPc, procN, procI, procW, processed_count, failed,
                   persisted, pendingTasks, tclPc, execDown>>
    /\ UNCHANGED <<vars, extVars, thermVars, cleanVars, streamVars>>

\* wait_for_completion: copy_future.result(timeout=30) returns or times out
\* (the exception is printed).
WaitCopyFuture ==
    /\ wfcPc = "copywait"
    /\ wfcPc' = "join"
    /\ UNCHANGED <<procPc, procN, procI, procW, processed_count, failed,
                   persisted, pendingTasks, tclPc, execDown>>
    /\ UNCHANGED <<vars, extVars, thermVars, cleanVars, streamVars>>

\* wait_for_completion: frame_queue.join() returns, no unfinished task is left.
WaitJoin ==
    /\ wfcPc = "join"
    /\ unfinished = 0
    /\ wfcPc' = "submit"
    /\ UNCHANGED <<procPc, procN, procI, procW, processed_count, failed,
                   persisted, pendingTasks, tclPc, execDown>>
    /\ UNCHANGED <<vars, extVars, thermVars, cleanVars, streamVars>>

\* wait_for_completion: `if not self.is_processing and self.captured_count > 0`
\* submits process_frames; submit raises RuntimeError on a pool that was shut
\* down, which leaves wait_for_completion.
WaitSubmit ==
    /\ wfcPc = "submit"
    /\ IF captured_count = 0
         THEN wfcPc' = "procwait" /\ procPc' = procPc
         ELSE IF execDown
           THEN wfcPc' = "raised" /\ procPc' = procPc
           ELSE wfcPc' = "procwait" /\ procPc' = "start"
    /\ UNCHANGED <<procN, procI, procW, processed_count, failed,
                   persisted, pendingTasks, tclPc, execDown>>
    /\ UNCHANGED <<vars, extVars, thermVars, cleanVars, streamVars>>

\* wait_for_completion: process_future.result(timeout=60) returns, times out
\* or re-raises process_frames' exception (both printed); the call returns.
WaitProcessFuture ==
    /\ wfcPc = "procwait"
    /\ wfcPc' = "returned"
    /\ UNCHANGED <<procPc, procN, procI, procW, processed_count, failed,
                   persisted, pendingTasks, tclPc, execDown>>
    /\ UNCHANGED <<vars, extVars, thermVars, cleanVars, streamVars>>

\* process_frames starts: frames_actually_captured, the first frame is dropped.
ProcStart ==
    /\ procPc = "start"
    /\ LET n == IF captured_count < target_count THEN captured_count
                ELSE target_count
       IN IF n <= 1
            THEN procPc' = "done" /\ UNCHANGED <<procN, procI, procW>>
            ELSE procPc' = "submit" /\ procN' = n - 1 /\ procI' = 0 /\ procW' = 0
    /\ UNCHANGED <<wfcPc, processed_count, failed, persisted, pendingTasks, tclPc,
                   execDown>>
    /\ UNCHANGED <<vars, extVars, thermVars, cleanVars, streamVars>>

\* process_frames: the end of the batch that starts at frame b.
BatchEnd(b, n) == IF b + BatchSize < n THEN b + BatchSize ELSE n

\* process_frames: executor.submit(_process_single_frame, i) for the frames of
\* the current batch (procW is the batch's first frame while it is being
\* submitted); on a pool that was shut down submit raises and process_frames
\* ends there.
ProcSubmit ==
    /\ procPc = "submit"
    /\ IF procI >= BatchEnd(procW, procN)
         THEN /\ procPc' = IF procW < procI THEN "wait" ELSE "done"
              /\ UNCHANGED <<pendingTasks, procI>>
         ELSE IF execDown
           THEN procPc' = "died" /\ UNCHANGED <<pendingTasks, procI>>
           ELSE /\ pendingTasks' = pendingTasks \cup {procI}
                /\ procI' = procI + 1
                /\ procPc' = procPc
    /\ UNCHANGED <<wfcPc, procN, procW, processed_count, failed, persisted, tclPc,
                   execDown>>
    /\ UNCHANGED <<vars, extVars, thermVars, cleanVars, streamVars>>

\* What process_frames adds to processed_count for one future: 1 when
\* future.result returned True, nothing when it returned False or timed out.
CountResultAlways(success) == 1
CountResult(success) == IF success THEN 1 ELSE 0

\* process_frames: future.result(timeout=30) of the batch's next frame.  A task
\* that has run hands over its result; one still waiting for a thread makes
\* the wait time out (the exception is swallowed).  After the batch's last
\* frame the next batch is submitted.
ProcWaitTask ==
    /\ procPc = "wait"
    /\ processed_count' = processed_count
           + CountResult(procW \notin pendingTasks /\ (procW + 1) \in persisted)
    /\ procW' = procW + 1
    /\ procPc' = IF procW + 1 < procI THEN "wait" ELSE "submit"
    /\ UNCHANGED <<wfcPc, procN, procI, failed, persisted, pendingTasks, tclPc,
                   execDown>>
    /\ UNCHANGED <<vars, extVars, thermVars, cleanVars, streamVars>>

\* _process_single_frame(i) runs on a free pool thread: it reads
\* frame_buffer[i + 1] and writes the image file (True), or returns False
\* because the slot is outside the buffer or the conversion or the save raised.
TaskRun ==
    /\ CanRun(BusyThreads)
    /\ \E i \in pendingTasks : \E ok \in BOOLEAN :
         /\ pendingTasks' = pendingTasks \ {i}
         /\ IF ok /\ i + 1 < target_count
              THEN persisted' = persisted \cup {i + 1} /\ failed' = failed
              ELSE failed' = failed \cup {i + 1} /\ persisted' = persisted
    /\ UNCHANGED <<wfcPc, procPc, procN, procI, procW, processed_count, tclPc,
                   execDown>>
    /\ UNCHANGED <<vars, extVars, thermVars, cleanVars, streamVars>>

\* This step is a _process_single_frame task reading frame_buffer[slot].
ReadsSlot(slot) ==
    \E i \in pendingTasks : i + 1 = slot /\ pendingTasks' = pendingTasks \ {i}

\* ThermalCamera.cleanup is called: is_capturing = False.
TCleanupEnter ==
    /\ tclPc = "off"
    /\ CleanupWhileRunning(ctrl) \/ wfcPc \in {"returned", "raised"}
    /\ is_capturing' = FALSE
    /\ tclPc' = "waits"
    /\ UNCHANGED <<frame_queue, captured_count, copied, dropped, cbPc, evictLeft,
                   copyPc, copyItem, unfinished>>
    /\ UNCHANGED <<wfcPc, procPc, procN, procI, procW, processed_count, failed,
                   persisted, pendingTasks, execDown>>
    /\ UNCHANGED <<vars, extVars, cleanVars, streamVars, sizeVars>>

\* ThermalCamera.cleanup: copy_future.result(timeout=10) and
\* process_future.result(timeout=15) return or time out, then
\* executor.shutdown marks the pool as shut down.
TCleanupShutdown ==
    /\ tclPc = "waits"
    /\ execDown' = (copyPc # "off")
    /\ tclPc' = "joinpool"
    /\ UNCHANGED <<wfcPc, procPc, procN, procI, procW, processed_count, failed,
                   persisted, pendingTasks>>
    /\ UNCHANGED <<vars, extVars, thermVars, cleanVars, streamVars>>

\* ThermalCamera.cleanup: shutdown(wait=True) returns when the pool's threads
\* have run every submitted task; then the frame queue is emptied, each entry
\* with get_nowait and task_done.
TCleanupDrain ==
    /\ tclPc = "joinpool"
    /\ copyPc \in {"off", "done"}
    /\ procPc \in {"off", "done", "died"}
    /\ pendingTasks = {}
    /\ frame_queue' = <<>>
    /\ unfinished' = IF unfinished > Len(frame_queue)
                     THEN unfinished - Len(frame_queue) ELSE 0
    /\ tclPc' = "done"
    /\ UNCHANGED <<is_capturing, captured_count, copied, dropped, cbPc, evictLeft,
                   copyPc, copyItem>>
    /\ UNCHANGED <<wfcPc, procPc, procN, procI, procW, processed_count, failed,
                   persisted, pendingTasks, execDown>>
    /\ UNCHANGED <<vars, extVars, cleanVars, streamVars, sizeVars>>

SessionNext ==
    \/ ThermalNext
    \/ WaitLoopExit
    \/ WaitCopyFuture
    \/ WaitJoin
    \/ WaitSubmit
    \/ WaitProcessFuture
    \/ ProcStart
    \/ ProcSubmit
    \/ ProcWaitTask
    \/ TaskRun
    \/ TCleanupEnter
    \/ TCleanupShutdown
    \/ TCleanupDrain

SpecThermalSession == SessionStart /\ [][SessionNext]_<<thermVars, sessVars>>

\* Every step of the session's own threads (the pool's threads, the thread in
\* wait_for_completion, the callback once entered, the thread in cleanup) is
\* eventually taken; the SDK is not obliged to deliver another frame.
SessionProgress ==
    \/ ThermalStartCapture \/ CallbackFirstPut \/ CallbackEvict \/ CallbackPut
    \/ CopyGet \/ CopyFinish \/ CopyExit \/ CaptureTimeout
    \/ WaitLoopExit \/ WaitCopyFuture \/ WaitJoin \/ WaitSubmit
    \/ WaitProcessFuture \/ ProcStart \/ ProcSubmit \/ ProcWaitTask \/ TaskRun
    \/ TCleanupEnter \/ TCleanupShutdown \/ TCleanupDrain

FairThermalSession ==
    SpecThermalSession /\ WF_<<thermVars, sessVars>>(SessionProgress)


---------------------------------------------------------------------------
\* The live-stream pairing of sync_2_fr.py: the FLIR worker and the thermal
\* realtime callback register their latest preview frame under stream_lock
\* and call _try_sync_stream before releasing it.

\* STREAM_PUSH_INTERVAL of config.py: every PushInterval-th FLIR frame is a
\* preview frame.
PushInterval == 2
\* Complete FLIR frames of a session, and calls of the thermal callback.
MaxFlirFrames == 8
MaxThermalFrames == 4

Abs(x) == IF x < 0 THEN 0 - x ELSE x

\* The outer condition of _try_sync_stream.
BothReady ==
    /\ flir_ready_for_stream
    /\ thermal_ready_for_stream
    /\ latest_flir # 0
    /\ latest_thermal # 0
    /\ latest_flir_stream_id > 0
    /\ latest_thermal_stream_id > 0

WithinTwo(fid, tid) == Abs(fid - tid) <= 2
\* stream_id_diff <= 1
WithinOne(fid, tid) == Abs(fid - tid) <= 1

LaggingSwapped(fid, tid) == IF fid < tid THEN "thermal" ELSE "flir"
\* The sensor whose ready flag the mismatch branch clears.
Lagging(fid, tid) == IF fid < tid THEN "flir" ELSE "thermal"

ReadyAfterPushKeepsFlir(fr, tr) == <<fr, FALSE>>
\* The two ready flags after streamPiper.push returned.
ReadyAfterPush(fr, tr) == <<FALSE, FALSE>>

\* One pass of the FLIR loop over a complete frame: count it and, on a preview
\* frame, register it; _try_sync_stream follows with the lock still held.
FlirStreamFrame ==
    /\ stream_lock = "free"
    /\ ~flirStopped
    /\ flir_frame_count < MaxFlirFrames
    /\ flir_frame_count' = flir_frame_count + 1
    /\ IF flir_frame_count' % PushInterval = 0
       THEN /\ latest_flir' = flir_frame_count'
            /\ latest_flir_stream_id' = flir_frame_count' \div PushInterval
            /\ flir_ready_for_stream' = TRUE
            /\ stream_lock' = "flir"
       ELSE UNCHANGED <<latest_flir, latest_flir_stream_id,
                        flir_ready_for_stream, stream_lock>>
    /\ UNCHANGED <<thermal_frame_count, latest_thermal,
                   latest_thermal_stream_id, thermal_ready_for_stream,
                   flirStopped, thermal_frames, pushed>>
    /\ UNCHANGED <<vars, extVars, thermVars, cleanVars, sessVars>>

\* _async_copy_worker handles the frame of index 0: `frame_index > 0` is
\* false, the realtime callback is not called.
ThermalFirstFrame ==
    /\ thermal_frames = 0
    /\ thermal_frames' = 1
    /\ UNCHANGED <<flir_frame_count, thermal_frame_count, latest_flir,
                   latest_thermal, latest_flir_stream_id,
                   latest_thermal_stream_id, flir_ready_for_stream,
                   thermal_ready_for_stream, stream_lock, flirStopped, pushed>>
    /\ UNCHANGED <<vars, extVars, thermVars, cleanVars, sessVars>>

\* _async_copy_worker handles a frame of index > 0 and calls the realtime
\* callback: _on_thermal_frame up to its call of _try_sync_stream.
OnThermalFrame ==
    /\ stream_lock = "free"
    /\ thermal_frames >= 1
    /\ thermal_frame_count < PushInterval * MaxThermalFrames
    /\ thermal_frames' = thermal_frames + 1
    /\ thermal_frame_count' = thermal_frame_count + PushInterval
    /\ latest_thermal' = thermal_frame_count' \div PushInterval
    /\ latest_thermal_stream_id' = thermal_frame_count' \div PushInterval
    /\ thermal_ready_for_stream' = TRUE
    /\ stream_lock' = "thermal"
    /\ UNCHANGED <<flir_frame_count, latest_flir, latest_flir_stream_id,
                   flir_ready_for_stream, flirStopped, pushed>>
    /\ UNCHANGED <<vars, extVars, thermVars, cleanVars, sessVars>>

\* _try_sync_stream, matching ticks: the composite is pushed and both flags
\* are cleared.
SyncPush ==
    /\ stream_lock # "free"
    /\ BothReady
    /\ WithinOne(latest_flir_stream_id, latest_thermal_stream_id)
    /\ pushed' = Append(pushed, [flir |-> latest_flir,
                                 thermal |-> latest_thermal,
                                 fid |-> latest_flir_stream_id,
                                 tid |-> latest_thermal_stream_id])
    /\ flir_ready_for_stream' =
           ReadyAfterPush(flir_ready_for_stream, thermal_ready_for_stream)[1]
    /\ thermal_ready_for_stream' =
           ReadyAfterPush(flir_ready_for_stream, thermal_ready_for_stream)[2]
    /\ stream_lock' = "free"
    /\ UNCHANGED <<flir_frame_count, thermal_frame_count, latest_flir,
                   latest_thermal, latest_flir_stream_id,
                   latest_thermal_stream_id, flirStopped, thermal_frames>>
    /\ UNCHANGED <<vars, extVars, thermVars, cleanVars, sessVars>>

\* _try_sync_stream, matching ticks, streamPiper.push (or the conversion before
\* it) raises: nothing is cleared; the exception ends the FLIR worker's loop,
\* while the thermal copy worker swallows it.
SyncPushRaises ==
    /\ stream_lock # "free"
    /\ BothReady
    /\ WithinOne(latest_flir_stream_id, latest_thermal_stream_id)
    /\ flirStopped' = (flirStopped \/ stream_lock = "flir")
    /\ stream_lock' = "free"
    /\ UNCHANGED <<flir_frame_count, thermal_frame_count, latest_flir,
                   latest_thermal, latest_flir_stream_id,
                   latest_thermal_stream_id, flir_ready_for_stream,
                   thermal_ready_for_stream, thermal_frames, pushed>>
    /\ UNCHANGED <<vars, extVars, thermVars, cleanVars, sessVars>>

\* _try_sync_stream, ticks too far apart: one ready flag is cleared.
SyncReset ==
    /\ stream_lock # "free"
    /\ BothReady
    /\ ~WithinOne(latest_flir_stream_id, latest_thermal_stream_id)
    /\ IF Lagging(latest_flir_stream_id, latest_thermal_stream_id) = "flir"
       THEN /\ flir_ready_for_stream' = FALSE
            /\ UNCHANGED thermal_ready_for_stream
       ELSE /\ thermal_ready_for_stream' = FALSE
            /\ UNCHANGED flir_ready_for_stream
    /\ stream_lock' = "free"
    /\ UNCHANGED <<flir_frame_count, thermal_frame_count, latest_flir,
                   latest_thermal, latest_flir_stream_id,
                   latest_thermal_stream_id, flirStopped, thermal_frames,
                   pushed>>
    /\ UNCHANGED <<vars, extVars, thermVars, cleanVars, sessVars>>

\* _try_sync_stream, outer condition false: nothing happens.
SyncSkip ==
    /\ stream_lock # "free"
    /\ ~BothReady
    /\ stream_lock' = "free"
    /\ UNCHANGED <<flir_frame_count, thermal_frame_count, latest_flir,
                   latest_thermal, latest_flir_stream_id,
                   latest_thermal_stream_id, flir_ready_for_stream,
                   thermal_ready_for_stream, flirStopped, thermal_frames,
                   pushed>>
    /\ UNCHANGED <<vars, extVars, thermVars, cleanVars, sessVars>>

StreamNext ==
    \/ FlirStreamFrame
    \/ ThermalFirstFrame
    \/ OnThermalFrame
    \/ SyncPush
    \/ SyncPushRaises
    \/ SyncReset
    \/ SyncSkip

SpecStream == Init /\ [][StreamNext]_streamVars

--------------------------------------------------------------------------
\* Vocabulary of the properties below.
Active == Sensors(ctrl)
NumActive == Cardinality(Sensors(ctrl))
InCleanup == mainPc \in {"cl_stop", "cl_sentinel", "cl_event", "cl_shutdown", "exit"}
SentinelPushed == mainPc \in {"cl_event", "cl_shutdown", "exit"}
EventRises == ~capture_complete_event /\ capture_complete_event'

C2_SetOnlyByCount ==
    [][/\ EventRises => completed_cameras < NumActive /\ completed_cameras' >= NumActive
       /\ capture_complete_event /\ mainPc # "sc_reset" => capture_complete_event']_vars

\* C2 (amended): capture_complete_event goes from unset to set at most once in
\* a session, either in the step in which completed_cameras first reaches the
\* number of active sensors or when cleanup() sets it during teardown, and
\* once set it stays set.
C2_SetByCountOrCleanup ==
    [][/\ EventRises =>
            \/ completed_cameras < NumActive /\ completed_cameras' >= NumActive
            \/ mainPc = "cl_event" /\ completed_cameras < NumActive
       /\ capture_complete_event /\ mainPc # "sc_reset" => capture_complete_event']_vars

\* C2 witness: the event was set by the count reaching the number of sensors.
C2_Witness ==
    /\ capture_complete_event
    /\ ~forced
    /\ NumActive = 2
    /\ completed_cameras = NumActive

\* C3 (as stated): a sensor whose data has been finalized and persisted
\* (ProcessingDone) has already reported CaptureDone.
C3_ProcessingAfterCapture ==
    procDone \subseteq capDone

\* C3 (amended): a sensor's data is finalized only after that sensor reported
\* CaptureDone, or after cleanup() has begun releasing the processors (it has
\* pushed the None sentinel into the sensor's queue or set the completion
\* event itself).
C3_ProcessingAfterCaptureOrCleanup ==
    \A s \in procDone :
        \/ s \in capDone
        \/ forced
        \/ s = "flir" /\ SentinelPushed

\* C3 witness: the FLIR processor finalized in order, before any teardown.
C3_Witness ==
    /\ "flir" \in procDone
    /\ "flir" \in capDone
    /\ ~InCleanup
    /\ saved # {}

\* C4: main reports the capture finished (start_capture returned success and
\* main returned True) only after every active sensor's data has been
\* persisted, unless the barrier wait timed out.
C4_CompleteOnlyAfterProcessing ==
    retval = "true" => (Active \subseteq procDone) \/ waitOutcome = "timeout"

\* C5: a capture worker that ended in its except branch has cleared RUNNING
\* and reported capture-done for its sensor to the barrier.
C5_CrashReportsCaptureDone ==
    \A s \in Active : wpc[s] = "crashed" => RUNNING = 0 /\ s \in marked

\* C6: when the barrier wait timed out with a sensor short of ProcessingDone,
\* start_capture does not return success and the exit status is non-zero.
C6_TimeoutIsIncomplete ==
    waitOutcome = "timeout" /\ ~(Active \subseteq procDone) =>
        /\ scRet # "True"
        /\ mainPc = "exit" => exitCode # 0

\* C7: when all sensors completed before the timeout and no error occurred,
\* start_capture reports success, main returns True and the exit status is 0.
C7_CompleteSessionSucceeds ==
    mainPc = "exit" /\ waitOutcome = "set" /\ ~errorSeen =>
        scRet = "True" /\ retval = "true" /\ exitCode = 0

\* C8: when connect or configure of a sensor failed during initialize_cameras,
\* no trigger command is written, no data processor or capture worker is
\* started, and the exit status is failure.
C8_InitFailureAborts ==
    (\E s \in Active : hw[s] # "ok") =>
        /\ pulses = 0
        /\ \A s \in AllSensors : wpc[s] = "off" /\ ppc[s] = "off"
        /\ mainPc = "exit" => exitCode = 1

\* C9: when the serial port could not be opened or the command could not be
\* written, send_pulse_command reports the failure to its caller; the write is
\* never retried.
C9_TriggerFailureReported ==
    /\ trigFailed /\ trigSeen # "none" => trigSeen = "raised"
    /\ pulses <= 1

\* C10: once send_pulse_command has returned (normally or by an exception),
\* the serial port it opened is closed.
C10_PortClosedOnReturn ==
    mainPc \notin {"trig_write", "trig_finally"} => ~serOpen

\* C10 witness: the port was opened, the write raised a non-serial exception,
\* and the call has returned to start_capture with the port closed.
C10_Witness ==
    /\ mainPc = "m_check"
    /\ trigSeen = "raised"
    /\ trigFailed
    /\ ~serOpen

\* C11: in each session the trigger command is written at most once, exactly
\* once when send_pulse_command returned without a port or write failure, and
\* only after start_capture has reset the barrier state and submitted every
\* data processor and every capture worker of the session.
C11_TriggerOnceAfterArming ==
    /\ pulses <= 1
    /\ trigSeen = "normal" /\ ~trigFailed => pulses = 1
    /\ pulses >= 1 =>
          /\ mainPc \notin {"init", "sc_reset", "sc_procs", "sc_config",
                             "sc_workers", "trig_open"}
          /\ \A s \in Sensors(ctrl) : wpc[s] # "off"
          /\ \A s \in Processors(ctrl) : ppc[s] # "off"

\* C11 witness: the command was written once and start_capture is in its
\* barrier wait with all workers and processors submitted.
C11_Witness ==
    /\ mainPc = "wait"
    /\ pulses = 1
    /\ trigSeen = "normal"
    /\ \A s \in Sensors(ctrl) : wpc[s] # "off"

\* C12: the thermal frame_queue never holds more than its capacity, its
\* entries stay in arrival order, and each entry frame_callback evicts on
\* queue.Full is the oldest entry queued at that moment.  (flir_queue is
\* created without a capacity; its producer never finds it full.)
C12_BoundedOldestFirst ==
    /\ [](/\ Len(frame_queue) <= QueueCap
          /\ \A i, j \in 1..Len(frame_queue) : i < j => frame_queue[i] < frame_queue[j])
    /\ [][dropped' # dropped =>
            /\ Len(dropped') = Len(dropped) + 1
            /\ \A i \in 1..Len(frame_queue) :
                   dropped'[Len(dropped')] <= frame_queue[i]
            /\ Len(frame_queue') = Len(frame_queue) - 1
            /\ \A i \in 1..Len(frame_queue') :
                   frame_queue'[i] # dropped'[Len(dropped')]]_thermVars

\* C12 witness: the producer found the queue full, evicted its oldest entries
\* and admitted the newest frame behind the entries that were kept.
C12_Witness ==
    /\ cbPc = "idle"
    /\ Len(dropped) = EvictBatch
    /\ Len(frame_queue) = QueueCap - EvictBatch + 1
    /\ frame_queue[Len(frame_queue)] = captured_count - 1
    /\ frame_queue[1] > dropped[Len(dropped)]

\* C13 (as stated): when the FLIR worker's loop has run to its end with
\* RUNNING still set, it has enqueued quota-many frames, however many
\* incomplete frames were interleaved.
C13_QuotaOfCompleteFrames ==
    wpc["flir"] \in {"end", "mark", "done"} /\ fi >= MaxImages =>
        Cardinality(enq) = MaxImages

\* C13 (amended): an incomplete frame is never enqueued, and it uses up one
\* pass of the worker's loop: the worker asks for at most quota frames, every
\* pass either enqueues its frame under the pass index or skips it, so it
\* enqueues quota minus the number of incomplete frames.
C13_IncompleteUsesQuota ==
    /\ fi <= MaxImages
    /\ enq \cap skipped = {}
    /\ enq \cup skipped = 0..(fi - 1)
    /\ \A i \in 1..Len(flir_queue) :
          flir_queue[i] # NoneItem => flir_queue[i] \in enq
    /\ images \subseteq enq

\* C13 witness: the loop ended after the full quota of passes, one of them on
\* an incomplete frame, with fewer than quota frames enqueued.
C13_Witness ==
    /\ wpc["flir"] = "done"
    /\ fi = MaxImages
    /\ RUNNING = 1
    /\ skipped # {}
    /\ enq # {}
    /\ Cardinality(enq) = MaxImages - Cardinality(skipped)

\* A data processor that is waiting and has nothing to wake it: the FLIR
\* processor polling an empty queue with the completion event unset, or a
\* processor inside capture_complete_event.wait().
Blocked(s) ==
    \/ s = "flir" /\ ppc[s] \in {"drain", "empty"} /\ flir_queue = <<>>
       /\ ~capture_complete_event
    \/ ppc[s] = "waitev" /\ ~capture_complete_event
AllThreadsDone == Finished(wpc) /\ Finished(ppc)

C15_NoResidualFrames ==
    mainPc = "exit" /\ AllThreadsDone =>
        /\ \A i \in 1..Len(flir_queue) : flir_queue[i] = NoneItem
        /\ enq \subseteq images

\* The session ended short: a sensor never reported its capture, or the FLIR
\* worker enqueued fewer frames than its quota.
CaptureIncomplete ==
    \/ ~(Active \subseteq marked)
    \/ "flir" \in Active /\ Cardinality(enq) < MaxImages

C18_PushOnlyWhenPaired ==
    [][pushed' # pushed =>
        /\ stream_lock # "free"
        /\ flir_ready_for_stream
        /\ thermal_ready_for_stream
        /\ Abs(latest_flir_stream_id - latest_thermal_stream_id) <= 1
        /\ pushed' = Append(pushed, [flir |-> latest_flir,
                                     thermal |-> latest_thermal,
                                     fid |-> latest_flir_stream_id,
                                     tid |-> latest_thermal_stream_id])
      ]_streamVars

\* One composite of two frames one tick apart and one of two frames of the
\* same tick were pushed.
C18_Witness ==
    /\ \E i \in 1..Len(pushed) : Abs(pushed[i].fid - pushed[i].tid) = 1
    /\ \E i \in 1..Len(pushed) : pushed[i].fid = pushed[i].tid

\* C19: when _try_sync_stream runs with both sensors ready and ticks more than
\* one apart, it clears the ready flag of the sensor with the smaller tick
\* only; the other flag stays set, and no latest frame, no tick and no
\* composite changes.
C19_ResetsLaggingOnly ==
    [][(/\ stream_lock # "free"
        /\ flir_ready_for_stream
        /\ thermal_ready_for_stream
        /\ Abs(latest_flir_stream_id - latest_thermal_stream_id) > 1)
       =>
       /\ IF latest_flir_stream_id < latest_thermal_stream_id
          THEN ~flir_ready_for_stream' /\ thermal_ready_for_stream'
          ELSE flir_ready_for_stream' /\ ~thermal_ready_for_stream'
       /\ UNCHANGED <<latest_flir, latest_thermal, latest_flir_stream_id,
                      latest_thermal_stream_id, pushed>>
      ]_streamVars

\* The thermal frame was registered, never composited, and its flag was
\* cleared while the FLIR frame at least two ticks ahead stays ready.
C19_Witness ==
    /\ stream_lock = "free"
    /\ flir_ready_for_stream
    /\ ~thermal_ready_for_stream
    /\ latest_thermal_stream_id > 0
    /\ latest_flir_stream_id > latest_thermal_stream_id + 1
    /\ \A i \in 1..Len(pushed) : pushed[i].thermal # latest_thermal

\* C20: every push clears both ready flags, and each composite is made of a
\* FLIR frame and a thermal frame both newer than those of every earlier
\* composite, so no registered frame is composited twice.
C20_PairCompositedOnce ==
    /\ [](\A i, j \in 1..Len(pushed) :
            i < j => /\ pushed[i].flir < pushed[j].flir
                     /\ pushed[i].thermal < pushed[j].thermal)
    /\ [][pushed' # pushed =>
            ~flir_ready_for_stream' /\ ~thermal_ready_for_stream'
         ]_streamVars

\* Two composites were pushed and a frame registered since is waiting for its
\* partner.
C20_Witness ==
    /\ Len(pushed) >= 2
    /\ stream_lock = "free"
    /\ flir_ready_for_stream # thermal_ready_for_stream

\* C21: each sensor registers a frame with the synchronizer only on every
\* k-th frame it captured (k = stream_push_interval), and the tick registered
\* is that sensor's count of captured frames divided by k.
C21_RegisteredEveryKth ==
    [][/\ latest_flir' # latest_flir =>
            /\ flir_frame_count' % PushInterval = 0
            /\ latest_flir_stream_id' = flir_frame_count' \div PushInterval
       /\ latest_thermal' # latest_thermal =>
            /\ thermal_frames' % PushInterval = 0
            /\ latest_thermal_stream_id' = thermal_frames' \div PushInterval
      ]_streamVars

\* The thermal session is over: wait_for_completion has left, by return or by
\* an exception, ThermalCamera.cleanup has returned and the pool is idle.
SessionOver ==
    /\ wfcPc \in {"returned", "raised"}
    /\ tclPc = "done"
    /\ procPc \in {"off", "done", "died"}
    /\ pendingTasks = {}

\* C22: when teardown (entered on the barrier timeout) is over, every frame a
\* sensor had captured and handed to its pipeline has been persisted: every
\* thermal frame copied into frame_buffer, but the first, which process_frames
\* drops by design, was written to disk.
C22_CapturedFramesPersisted ==
    SessionOver => \A i \in copied : i >= 1 /\ i \notin failed => i \in persisted

\* C23: when _flir_data_processor leaves its drain loop through the timeout
\* branch (queue.Empty raised, then the completion event found set, nothing
\* popped), no frame put by the capture worker is in flir_queue.
C23_TimeoutExitLeavesNoFrame ==
    [][ppc["flir"] = "empty" /\ ppc'["flir"] = "save" /\ flir_queue' = flir_queue =>
          \A i \in 1..Len(flir_queue) : flir_queue[i] = NoneItem]_vars

\* C24: wait_for_completion always leaves: once the capture has been started,
\* the thread in wait_for_completion eventually gets past frame_queue.join()
\* and returns (or is thrown out by an exception).
C24_WaitForCompletionReturns ==
    (copyPc # "off") ~> (wfcPc \in {"returned", "raised"})

\* C25: completed_cameras counts each sensor exactly once: it equals the number
\* of sensors that have called _mark_camera_complete, never exceeds the number
\* of active sensors, and a capture worker that has ended, on its normal path
\* or in its except branch, has made its call.
C25_CountedExactlyOnce ==
    /\ completed_cameras = Cardinality(marked)
    /\ completed_cameras <= NumActive
    /\ \A s \in Active : wpc[s] \in {"done", "crashed"} => s \in marked

\* The copy worker takes a frame from frame_queue in this step.
CopyWorkerDequeues == copyPc = "run" /\ copyPc' = "copying"

PacingWorkerEnded ==
    \E s \in Active : /\ SetsAcqFlag(ctrl, s)
                      /\ wpc[s] \in {"mark", "done", "crashed"}

SentinelQueued == \E j \in 1..Len(flir_queue) : flir_queue[j] = NoneItem

C29_NoReadWhileCopying ==
    [][\A slot \in 0..target_count :
          ReadsSlot(slot) => ~(copyPc = "copying" /\ copyItem = slot)
      ]_<<thermVars, sessVars>>

\* C30: at the step that writes the trigger command, no capture worker of the
\* session is still ahead of the call that arms its camera (for the thermal
\* worker, thermal_cam.start_capture(), which sets is_capturing).
C30_ArmedWhenTriggered ==
    [][pulses' > pulses => \A s \in Active : wpc[s] # "start"]_vars

\* start_capture runs its FLIR teardown (EndAcquisition, DeInit) in this step.
FlirTeardownStep ==
    /\ "flir" \in Active
    /\ mainPc = "sc_end"
    /\ mainPc' = "m_check"

\* C31: start_capture stops and de-initializes the FLIR camera only when the
\* FLIR capture worker is out of its acquisition loop, so no GetNextImage is
\* called on the de-initialized camera, also after a barrier timeout.
C31_DeInitAfterWorkerLeftLoop ==
    [][FlirTeardownStep => wpc["flir"] \notin {"loop", "get"}]_vars

\* _event_data_processor gets past capture_complete_event.wait() and calls
\* prophesee_tirgger_found in this step.
EventExtractionStarts ==
    /\ ppc["event"] = "waitev"
    /\ ppc'["event"] = "done"

\* C32: the event data processor starts extracting triggers only when the
\* event worker is out of start_recording (the recording has been stopped),
\* also when cleanup set the completion event itself.
C32_ExtractAfterRecordingStopped ==
    [][EventExtractionStarts => wpc["event"] # "rec"]_vars

\* C33: every frame_buffer slot that _process_single_frame has persisted was
\* written by the copy worker; the slot of a frame that frame_callback evicted
\* from the queue is not persisted.
C33_PersistedWereCopied ==
    /\ persisted \subseteq copied
    /\ \A k \in 1..Len(dropped) : dropped[k] \notin persisted

\* process_frames has run to its end and every task it submitted has run.
ProcessFramesFinished == procPc = "done" /\ pendingTasks = {}

\* C34: on finalization the thermal persistence stage, which discards the first
\* frame, has persisted exactly the frames the copy worker drained with index
\* greater than 0 (nothing when only index 0 was drained).
C34_PersistsDrainedAfterFirst ==
    ProcessFramesFinished => persisted = {i \in copied : i > 0 /\ i \notin failed}

--------------------------------------------------------------------------
\* The DAVIS recording script, sync_davis_flir/Trigger.py.

\* Batches recorded per run and triggers per batch in the model.
MaxBatches == 3
MaxBatchLen == 2

\* TriggerType values the DAVIS detector reports with rising-edge,
\* falling-edge and pulse detection enabled (deviceConfigSet, lines 34-40).
TriggerTypes == {"RISING_EDGE", "FALLING_EDGE", "PULSE"}

\* What capture.getNextTriggerBatch() can return besides None: a batch of
\* triggers, given by their types.
TriggerBatches ==
    UNION {[1..n -> TriggerTypes] : n \in 0..MaxBatchLen}

\* Lines 134-142: the flag of type t after the batch has been scanned.
FlagAfter(flag, batch, t) ==
    flag \/ \E i \in 1..Len(batch) : batch[i] = t

\* Lines 155-160: the triggers of type t in all recorded batches.
RECURSIVE CountTriggers(_, _)
CountTriggers(list, t) ==
    IF list = <<>> THEN 0
    ELSE Cardinality({i \in 1..Len(Head(list)) : Head(list)[i] = t})
         + CountTriggers(Tail(list), t)

\* Lines 162-163 and 166-172: the two assertions, then the timestamps saved.
AssertOutcome(rising, falling) ==
    IF rising # 1 THEN "rising_error"
    ELSE IF falling # 1 THEN "falling_error"
    ELSE "saved"

\* One pass of the while loop (lines 89-144) in which no break happens: the
\* camera delivers None (nothing changes) or a batch, which sets the flags
\* and is appended to triggers_list.
DavisIteration ==
    /\ davisPc = "loop"
    /\ ~(flag_rising_edge /\ flag_falling_edge)
    /\ \/ UNCHANGED <<flag_rising_edge, flag_falling_edge, triggers_list>>
       \/ /\ Len(triggers_list) < MaxBatches
          /\ \E batch \in TriggerBatches :
               /\ flag_falling_edge' =
                      FlagAfter(flag_falling_edge, batch, "FALLING_EDGE")
               /\ flag_rising_edge' =
                      FlagAfter(flag_rising_edge, batch, "RISING_EDGE")
               /\ triggers_list' = Append(triggers_list, batch)
    /\ davisPc' = davisPc
    /\ UNCHANGED <<vars, thermVars, cleanVars, streamVars, sessVars, lhyVars>>

\* Lines 92-93: both flags are set, the loop is left by break.
DavisBreak ==
    /\ davisPc = "loop"
    /\ flag_rising_edge /\ flag_falling_edge
    /\ davisPc' = "count"
    /\ UNCHANGED <<flag_rising_edge, flag_falling_edge, triggers_list>>
    /\ UNCHANGED <<vars, thermVars, cleanVars, streamVars, sessVars, lhyVars>>

\* Line 89 and lines 146-148: capture.isRunning() turns false (the camera is
\* disconnected) or the operator presses Ctrl-C; the script goes on after
\* the try statement.
DavisStopped ==
    /\ davisPc = "loop"
    /\ davisPc' = "count"
    /\ UNCHANGED <<flag_rising_edge, flag_falling_edge, triggers_list>>
    /\ UNCHANGED <<vars, thermVars, cleanVars, streamVars, sessVars, lhyVars>>

\* Lines 151-175: the triggers are counted and asserted.
DavisAssert ==
    /\ davisPc = "count"
    /\ davisPc' = AssertOutcome(CountTriggers(triggers_list, "RISING_EDGE"),
                                CountTriggers(triggers_list, "FALLING_EDGE"))
    /\ UNCHANGED <<flag_rising_edge, flag_falling_edge, triggers_list>>
    /\ UNCHANGED <<vars, thermVars, cleanVars, streamVars, sessVars, lhyVars>>

DavisNext ==
    \/ DavisIteration
    \/ DavisBreak
    \/ DavisStopped
    \/ DavisAssert

SpecDavis == Init /\ [][DavisNext]_davisVars

\* C36: when the recording loop has ended after both edges were seen, the
\* recorded batches hold exactly one rising-edge and exactly one falling-edge
\* trigger, and neither assertion after the loop fails.
C36_OneRisingOneFallingRecorded ==
    davisPc # "loop" /\ flag_rising_edge /\ flag_falling_edge =>
        /\ CountTriggers(triggers_list, "RISING_EDGE") = 1
        /\ CountTriggers(triggers_list, "FALLING_EDGE") = 1
        /\ davisPc \notin {"rising_error", "falling_error"}

--------------------------------------------------------------------------
\* C37: captured_count never exceeds target_count, every index frame_callback
\* put into frame_queue (still queued, evicted, or taken by the copy worker)
\* lies in [0, target_count), and whenever frame_callback is not running and
\* captured_count has reached target_count, is_capturing is false.
C37_CountAndIndicesWithinTarget ==
    /\ captured_count <= target_count
    /\ \A i \in 1..Len(frame_queue) :
          0 <= frame_queue[i] /\ frame_queue[i] < target_count
    /\ \A i \in 1..Len(dropped) : 0 <= dropped[i] /\ dropped[i] < target_count
    /\ copyItem # -1 => 0 <= copyItem /\ copyItem < target_count
    /\ cbPc = "idle" /\ captured_count >= target_count => ~is_capturing

\* The last frame of the capture was queued after an overflow eviction: the
\* count has reached the target and the capture is over.
C37_Witness ==
    /\ cbPc = "idle"
    /\ captured_count = target_count
    /\ ~is_capturing
    /\ dropped # <<>>
    /\ frame_queue # <<>>
    /\ frame_queue[Len(frame_queue)] = target_count - 1

--------------------------------------------------------------------------
\* ThermalCamera of sync_3_camera/sync_3_camera/thermal_lib_lhy.py: frames are
\* copied inside frame_callback, and process_frames runs in a thread started
\* by whoever finds the capture over.

\* Frames the camera is configured for (configure_camera's frame_count).
LhyFrames == 3

\* start_capture (lines 218-232): reset the count, set is_capturing.
LhyStartCapture ==
    /\ lhyPc = "new"
    /\ lhy_captured_count' = 0
    /\ lhy_is_capturing' = TRUE
    /\ lhy_is_processing' = FALSE
    /\ lhyPc' = "enter"
    /\ UNCHANGED <<lhy_mutex, lhyCbPc, last_count, process_starts>>
    /\ UNCHANGED <<vars, thermVars, cleanVars, streamVars, sessVars, davisVars>>

\* frame_callback (lines 128-133): the two tests before the copy.
LhyFrameCallback ==
    /\ lhyCbPc = "idle"
    /\ lhyCbPc' = IF lhy_is_capturing /\ lhy_captured_count < LhyFrames
                  THEN "lock" ELSE lhyCbPc
    /\ UNCHANGED <<lhy_is_capturing, lhy_is_processing, lhy_captured_count,
                   lhy_mutex, lhyPc, last_count, process_starts>>
    /\ UNCHANGED <<vars, thermVars, cleanVars, streamVars, sessVars, davisVars>>

\* frame_callback (line 137): `with self.mutex` is entered.
LhyCallbackLock ==
    /\ lhyCbPc = "lock"
    /\ lhy_mutex = "free"
    /\ lhy_mutex' = "callback"
    /\ lhyCbPc' = "copy"
    /\ UNCHANGED <<lhy_is_capturing, lhy_is_processing, lhy_captured_count,
                   lhyPc, last_count, process_starts>>
    /\ UNCHANGED <<vars, thermVars, cleanVars, streamVars, sessVars, davisVars>>

\* frame_callback (lines 138-139): memmove and captured_count += 1, then the
\* mutex is released.
LhyCallbackCopy ==
    /\ lhyCbPc = "copy"
    /\ lhy_captured_count' = lhy_captured_count + 1
    /\ lhy_mutex' = "free"
    /\ lhyCbPc' = "check"
    /\ UNCHANGED <<lhy_is_capturing, lhy_is_processing, lhyPc, last_count,
                   process_starts>>
    /\ UNCHANGED <<vars, thermVars, cleanVars, streamVars, sessVars, davisVars>>

\* frame_callback (lines 142-148), outside the mutex: when the count has
\* reached the target, the capture is ended and process_frames is started.
LhyCallbackCheck ==
    /\ lhyCbPc = "check"
    /\ IF lhy_captured_count >= LhyFrames
         THEN /\ lhy_is_capturing' = FALSE
              /\ lhy_is_processing' = TRUE
              /\ process_starts' = process_starts + 1
         ELSE UNCHANGED <<lhy_is_capturing, lhy_is_processing, process_starts>>
    /\ lhyCbPc' = "idle"
    /\ UNCHANGED <<lhy_captured_count, lhy_mutex, lhyPc, last_count>>
    /\ UNCHANGED <<vars, thermVars, cleanVars, streamVars, sessVars, davisVars>>

\* wait_for_completion (lines 319-321): last_count = self.captured_count.
LhyWaitEnter ==
    /\ lhyPc = "enter"
    /\ last_count' = lhy_captured_count
    /\ lhyPc' = "loop"
    /\ UNCHANGED <<lhy_is_capturing, lhy_is_processing, lhy_captured_count,
                   lhy_mutex, lhyCbPc, process_starts>>
    /\ UNCHANGED <<vars, thermVars, cleanVars, streamVars, sessVars, davisVars>>

\* wait_for_completion (lines 323-324): `while self.is_capturing`, sleep.
LhyWaitLoop ==
    /\ lhyPc = "loop"
    /\ lhyPc' = IF lhy_is_capturing THEN "sleep" ELSE "join"
    /\ UNCHANGED <<lhy_is_capturing, lhy_is_processing, lhy_captured_count,
                   lhy_mutex, lhyCbPc, last_count, process_starts>>
    /\ UNCHANGED <<vars, thermVars, cleanVars, streamVars, sessVars, davisVars>>

\* wait_for_completion (lines 327-328, 352-355): the count is compared with
\* last_count; unchanged for stall_timeout seconds or more leads to the stall
\* branch, a changed count resets last_count.
LhyWaitCompare ==
    /\ lhyPc = "sleep"
    /\ IF lhy_captured_count = last_count
         THEN /\ \E stalled \in BOOLEAN :
                   lhyPc' = IF stalled THEN "stall" ELSE "loop"
              /\ last_count' = last_count
         ELSE /\ last_count' = lhy_captured_count
              /\ lhyPc' = "loop"
    /\ UNCHANGED <<lhy_is_capturing, lhy_is_processing, lhy_captured_count,
                   lhy_mutex, lhyCbPc, process_starts>>
    /\ UNCHANGED <<vars, thermVars, cleanVars, streamVars, sessVars, davisVars>>

\* wait_for_completion (lines 330-345): the stall is logged and the mutex
\* taken.
LhyWaitLock ==
    /\ lhyPc = "stall"
    /\ lhy_mutex = "free"
    /\ lhy_mutex' = "wait"
    /\ lhyPc' = "force"
    /\ UNCHANGED <<lhy_is_capturing, lhy_is_processing, lhy_captured_count,
                   lhyCbPc, last_count, process_starts>>
    /\ UNCHANGED <<vars, thermVars, cleanVars, streamVars, sessVars, davisVars>>

\* wait_for_completion (lines 346-351), inside the mutex: the capture is
\* ended and, with at least one frame captured, process_frames is started.
LhyWaitForce ==
    /\ lhyPc = "force"
    /\ lhy_is_capturing' = FALSE
    /\ IF lhy_captured_count > 0
         THEN /\ lhy_is_processing' = TRUE
              /\ process_starts' = process_starts + 1
         ELSE UNCHANGED <<lhy_is_processing, process_starts>>
    /\ lhy_mutex' = "free"
    /\ lhyPc' = "join"
    /\ UNCHANGED <<lhy_captured_count, lhyCbPc, last_count>>
    /\ UNCHANGED <<vars, thermVars, cleanVars, streamVars, sessVars, davisVars>>

\* wait_for_completion (lines 358-362): the thread in self.process_thread is
\* joined and is_processing cleared.
LhyWaitJoin ==
    /\ lhyPc = "join"
    /\ lhy_is_processing' = FALSE
    /\ lhyPc' = "done"
    /\ UNCHANGED <<lhy_is_capturing, lhy_captured_count, lhy_mutex, lhyCbPc,
                   last_count, process_starts>>
    /\ UNCHANGED <<vars, thermVars, cleanVars, streamVars, sessVars, davisVars>>

LhyNext ==
    \/ LhyStartCapture
    \/ LhyFrameCallback
    \/ LhyCallbackLock
    \/ LhyCallbackCopy
    \/ LhyCallbackCheck
    \/ LhyWaitEnter
    \/ LhyWaitLoop
    \/ LhyWaitCompare
    \/ LhyWaitLock
    \/ LhyWaitForce
    \/ LhyWaitJoin

SpecLhy == Init /\ [][LhyNext]_lhyVars

\* C38: process_frames is started at most once per capture.
C38_ProcessFramesStartedOnce == process_starts <= 1

--------------------------------------------------------------------------
\* C39: frame_queue's unfinished-task count equals the number of items put
\* and not yet completed: the items still queued plus the one the copy worker
\* is handling.
C39_UnfinishedMatchesOutstanding ==
    unfinished = Len(frame_queue) + (IF copyPc = "copying" THEN 1 ELSE 0)

====
